---- MODULE Spec2Model ----
(***************************************************************************)
(* Model of the quantitative core of the QQQ options analyzer:             *)
(*   src/unnamed/part_008     (processOption, findTrueGammaFlip,           *)
(*                             calculatePriceProbabilities,                *)
(*                             generateRecommendations, ...)               *)
(*   src/api/index.ts         (/api/analysis, /api/ticker-analysis)        *)
(*   src/scripts/backtest-qqq.ts (getStatus)                               *)
(*                                                                         *)
(* JavaScript numbers are modelled exactly, as rationals: a quantity is an *)
(* integer numerator over a denominator that the comment of its definition *)
(* names.  A value that can be NaN, infinite or undefined is a record      *)
(* [k |-> "num" | "nan" | "inf" | "undef", v |-> numerator].               *)
(* The pricing library (@uqee/black-scholes) is not part of the            *)
(* repository: each call to it is an input of the step that makes it.      *)
(***************************************************************************)
EXTENDS Integers, Sequences, FiniteSets, TLC

VARIABLES
  pc,            \* the operation a run exercises and its position in it
  probArgs,      \* arguments of calculatePriceProbabilities
  probability,   \* its result: [up, down, neutral]
  rawOption,     \* arguments of processOption: the contract, its side, the spot
  openInterest,  \* processOption: the effective open interest
  sigma,         \* calculateImpliedVolatility: the current estimate
  ivIter,        \* calculateImpliedVolatility: the loop counter i
  ivRepaired,    \* processOption: TRUE when implied volatility was inverted
  processed,     \* the ProcessedOption returned, None before
  recArgs,       \* arguments of generateRecommendations
  recommendations, \* the bands it returned, None before
  statusPrice,   \* getStatus: the price looked up
  status,        \* getStatus: index of the band returned, 0 before
  marketPrice,   \* /api/analysis: currentPrice, the quote
  validResults,  \* /api/analysis: the per-expiration results so far
  expiration,    \* /api/analysis: the walls of the running task
  aggregate,     \* /api/analysis: the aggregate levels, None before
  flipSpot,      \* findTrueGammaFlip: currentSpot
  flipOptions,   \* findTrueGammaFlip: options.length
  flipLow,       \* findTrueGammaFlip: low
  flipHigh,      \* findTrueGammaFlip: high
  gexLow,        \* findTrueGammaFlip: gexLow, the exposure at the first low
  gexHigh,       \* findTrueGammaFlip: gexHigh, the exposure at the first high
  gexAtLow,      \* the exposure that was evaluated at the current low
  gexAtHigh,     \* the exposure that was evaluated at the current high
  flipIter,      \* findTrueGammaFlip: the loop counter i
  evaluations,   \* calls of calculateNetGexAtSpot made so far
  flipResult,    \* the spot returned, how, and the exposure evaluated there
  scenarioInput, \* the snapshots a scenario generator is given
  combinations,  \* the scenarios pushed by the nested loops
  swingScenarios, \* swingScenarios / tickerSwingScenarios of the response
  commonData,    \* calculateManualBeta: the aligned closes pushed so far
  betaUnmatched, \* calculateManualBeta: a benchmark quote had no ticker close
  manualBeta,    \* calculateManualBeta: the value returned and the path taken
  tickerInput,   \* /api/ticker-analysis: the quote, the beta and the QQQ levels
  tickerResponse, \* /api/ticker-analysis: the status and the projected levels
  gexPair,       \* calculateSentiment: callGex and putGex
  sentiment,     \* calculateSentiment: the value returned
  rawExpirationDates, \* /api/analysis: optionChain.expirationDates
  finalExpirations,   \* /api/analysis: the dates analysed
  results,       \* /api/analysis: the array Promise.all resolves with
  details,       \* /api/analysis: diagnostics.details
  biasArgs,  \* calculateGammaAdjustedExpectedPrice: its argument
  biasedPrice,  \* calculateGammaAdjustedExpectedPrice: the value returned
  netGex,    \* calculateNetGexAtSpot: the value returned
  totalOI    \* sumOI: the value returned, in tenths of a contract

probVars == <<probArgs, probability>>
optVars == <<rawOption, openInterest, sigma, ivIter, ivRepaired, processed,
            netGex, totalOI>>
recVars == <<recArgs, recommendations, statusPrice, status>>
pipeVars == <<marketPrice, validResults, expiration, aggregate>>
flipVars == <<flipSpot, flipOptions, flipLow, flipHigh, gexLow, gexHigh,
              gexAtLow, gexAtHigh, flipIter, evaluations, flipResult>>
scenVars == <<scenarioInput, combinations, swingScenarios>>
betaVars == <<commonData, betaUnmatched, manualBeta>>
projVars == <<tickerInput, tickerResponse>>
sentVars == <<gexPair, sentiment>>
reqVars == <<rawExpirationDates, finalExpirations, results, details>>
expectedVars == <<biasArgs, biasedPrice>>
restVars == <<betaVars, projVars, sentVars, reqVars, expectedVars>>
vars == <<pc, probVars, optVars, recVars, pipeVars, flipVars, scenVars, restVars>>

None == <<>>

\* The variables of an operation that a run does not exercise.
ProbIdle == probArgs = None /\ probability = None
OptIdle ==
  /\ rawOption = None /\ openInterest = 0 /\ sigma = None /\ ivIter = 0
  /\ ivRepaired = FALSE /\ processed = None /\ netGex = None
  /\ totalOI = None
RecIdle ==
  /\ recArgs = None /\ recommendations = None /\ statusPrice = 0
  /\ status = 0
PipeIdle ==
  /\ marketPrice = 0 /\ validResults = <<>> /\ expiration = None
  /\ aggregate = None
FlipIdle ==
  /\ flipSpot = 0 /\ flipOptions = 0 /\ flipLow = 0 /\ flipHigh = 0
  /\ gexLow = None /\ gexHigh = None /\ gexAtLow = None /\ gexAtHigh = None
  /\ flipIter = 0 /\ evaluations = 0 /\ flipResult = None
ScenIdle ==
  scenarioInput = None /\ combinations = <<>> /\ swingScenarios = None
BetaIdle == commonData = <<>> /\ betaUnmatched = FALSE /\ manualBeta = None
ProjIdle == tickerInput = None /\ tickerResponse = None
SentIdle == gexPair = None /\ sentiment = None
ReqIdle ==
  /\ rawExpirationDates = <<>> /\ finalExpirations = <<>> /\ results = <<>>
  /\ details = <<>>
ExpectedIdle ==
  biasArgs = None /\ biasedPrice = None
RestIdle ==
  /\ BetaIdle
  /\ ProjIdle
  /\ SentIdle
  /\ ReqIdle
  /\ ExpectedIdle

-----------------------------------------------------------------------------
(* Arithmetic helpers (Math.abs, Math.max, Math.min, Math.round).          *)

Abs(x) == IF x < 0 THEN -x ELSE x
Max(a, b) == IF a >= b THEN a ELSE b
Min(a, b) == IF a <= b THEN a ELSE b

\* Math.round(n / d) for d > 0: the nearest integer, a half rounding up.
Round(n, d) == (2 * n + d) \div (2 * d)

RECURSIVE SumSeq(_)
SumSeq(s) == IF s = <<>> THEN 0 ELSE Head(s) + SumSeq(Tail(s))

SeqsUpTo(S, n) == UNION {[1..k -> S] : k \in 0..n}

-----------------------------------------------------------------------------
(* calculatePriceProbabilities (part_008:272-330).                         *)
(* gex and energies are in units of 0.0001, so the test                    *)
(* totalEnergy > 0.0001 reads totalEnergy > 1.                             *)

MaxLegs == 2        \* contracts per side given to the probability model
MaxOI == 3          \* largest filtered open interest total

GexSamples == {-1, 0, 1, 3}

\* calls.reduce((acc, opt) => acc + Math.max(0, opt.gex), 0)
totalCallEnergy(calls) ==
  SumSeq([i \in 1..Len(calls) |-> Max(0, calls[i])])

\* puts.reduce((acc, opt) => acc + Math.abs(Math.min(0, opt.gex)), 0)
totalPutEnergy(puts) ==
  SumSeq([i \in 1..Len(puts) |-> Abs(Min(0, puts[i]))])

\* The energy branch without the last assignment to neutralProb.
EnergyBranchCapDropped(C, P) ==
  LET E == C + P
      neutral0 == Max(15 * E, 90 * E - 120 * Abs(C - P))
      remaining == 100 * E - neutral0
  IN [up |-> Min(80 * E * E, remaining * C),
      down |-> Min(80 * E * E, remaining * (E - C)),
      neutral |-> neutral0 * E, den |-> E * E]

\* Energy branch, lines 297-311.  Result over the denominator den = E * E.
EnergyBranch(C, P) ==
  LET E == C + P
      \* neutralProb = max(15, 100 - |rawUp - rawDown| * 1.2 - 10), times E
      neutral0 == Max(15 * E, 90 * E - 120 * Abs(C - P))
      remaining == 100 * E - neutral0                  \* times E
      \* ratio = rawUp / (rawUp + rawDown) = C / E
      up == Min(80 * E * E, remaining * C)
      down == Min(80 * E * E, remaining * (E - C))
  IN [up |-> up, down |-> down, neutral |-> 100 * E * E - up - down,
      den |-> E * E]

\* Open-interest branch, lines 312-322.  Result over the denominator den = T.
OIBranch(callOI, putOI) ==
  LET T == callOI + putOI
      \* neutralProb = 15, remaining = 85, ratio = upProb / (upProb + downProb)
      up == Min(80 * T, 85 * callOI)
      down == Min(80 * T, 85 * (T - callOI))
  IN [up |-> up, down |-> down, neutral |-> 100 * T - up - down, den |-> T]

\* The unrounded probabilities, lines 293-323.
RawProbabilities(calls, puts, filteredCallOI, filteredPutOI) ==
  LET C == totalCallEnergy(calls)
      P == totalPutEnergy(puts)
  IN IF C + P > 1 THEN EnergyBranch(C, P)
     ELSE IF filteredCallOI + filteredPutOI > 0
          THEN OIBranch(filteredCallOI, filteredPutOI)
          ELSE [up |-> 50, down |-> 50, neutral |-> 0, den |-> 1]

calculatePriceProbabilities(calls, puts, filteredCallOI, filteredPutOI) ==
  LET p == RawProbabilities(calls, puts, filteredCallOI, filteredPutOI)
  IN [up |-> Round(p.up, p.den),
      down |-> Round(p.down, p.den),
      neutral |-> Round(p.neutral, p.den),
      unrounded |-> p]   \* upProb, downProb, neutralProb before Math.round

ProbBranch(a) ==
  IF totalCallEnergy(a.calls) + totalPutEnergy(a.puts) > 1 THEN "energy"
  ELSE IF a.filteredCallOI + a.filteredPutOI > 0 THEN "oi" ELSE "default"

ProbInputs ==
  [calls : SeqsUpTo(GexSamples, MaxLegs),
   puts : SeqsUpTo({-g : g \in GexSamples}, MaxLegs),
   filteredCallOI : 0..MaxOI,
   filteredPutOI : 0..MaxOI]

InitProb ==
  /\ pc = "prob"
  /\ probArgs \in ProbInputs
  /\ probability = None
  /\ OptIdle /\ RecIdle /\ PipeIdle /\ FlipIdle /\ ScenIdle /\ RestIdle

CallCalculatePriceProbabilities ==
  /\ pc = "prob"
  /\ probability' = calculatePriceProbabilities(probArgs.calls, probArgs.puts,
                       probArgs.filteredCallOI, probArgs.filteredPutOI)
  /\ pc' = "probDone"
  /\ UNCHANGED <<probArgs, optVars, recVars, pipeVars, flipVars, scenVars, restVars>>

NextProb == CallCalculatePriceProbabilities

SpecProb == InitProb /\ [][NextProb]_vars

\* C1: for every input of calculatePriceProbabilities (energy branch,
\* open-interest branch, default branch) the three returned integers sum to
\* exactly 100.
C1_SumIs100 ==
  pc = "probDone" =>
    probability.up + probability.down + probability.neutral = 100

C24_WitnessOI ==
  /\ pc = "probDone"
  /\ ProbBranch(probArgs) = "oi"
  /\ probArgs.filteredCallOI = 0
  /\ probability.unrounded.down = 80 * probability.unrounded.den
  /\ probability.unrounded.neutral = 20 * probability.unrounded.den

\* C29: neutral is at least 15 in every result, whichever branch produced it.
C29_NeutralAtLeast15 ==
  pc = "probDone" => probability.neutral >= 15

\* C29, the part that holds: neutral is at least 15 in the energy branch and
\* in the open-interest branch.
C29_NeutralAtLeast15WithData ==
  (pc = "probDone" /\ ProbBranch(probArgs) # "default") =>
    probability.neutral >= 15

\* C29: without energy and without open interest the result is 50 / 50 / 0.
C29_DefaultNeutralZero ==
  /\ pc = "probDone"
  /\ ProbBranch(probArgs) = "default"
  /\ probability.up = 50 /\ probability.down = 50
  /\ probability.neutral = 0


-----------------------------------------------------------------------------
(* JavaScript values that need not be finite numbers.                      *)

Num(v) == [k |-> "num", v |-> v]
NaN == [k |-> "nan", v |-> 0]
Infinity == [k |-> "inf", v |-> 0]
Arr(list) == [k |-> "array", v |-> list]
Undefined == [k |-> "undef", v |-> 0]

\* typeof val === "number" && isFinite(val)
IsFiniteNumber(x) == x.k = "num"

\* safeNum (part_008:44-46); the result is a numerator.
safeNum(val, fallback) == IF IsFiniteNumber(val) THEN val.v ELSE fallback

\* Number(x) > 0: false for undefined and NaN.
Positive(x) == x.k = "inf" \/ (x.k = "num" /\ x.v > 0)

-----------------------------------------------------------------------------
(* processOption and calculateImpliedVolatility (part_008:80-192).         *)
(* openInterest is in tenths of a contract, volume in contracts, implied   *)
(* volatility in units of 0.0001, gamma in units the pricing model fixes.  *)

IV_CLAMP_MIN == 1            \* 0.0001
IV_CLAMP_MAX == 50000        \* 5.0
maxIterations == 20
InitialSigma == 2000         \* let sigma = 0.2
RepairBelow == 10            \* ivRaw < 0.001
GreekSigmaFloor == 1000      \* Math.max(0.1, impliedVolatility)

OISamples == {Undefined, Num(-10), Num(0), Num(4), Num(5), Num(25), Num(30)}
VolumeSamples == {Undefined, Num(0), Num(3), Num(5), Num(14)}
IVSamples == {Undefined, NaN, Num(-1), Num(0), Num(5), Num(10), Num(500),
              Num(2500), Num(60000)}
LastPriceSamples == {Num(1), Undefined}
\* sigma - diff / vega before the clamp of lines 113-114
NewtonSamples == {-300, 0, 700, 60000}
\* result.gamma as the pricing model returns it
GammaSamples == {Num(-3), Num(0), Num(2), NaN, Infinity, Undefined}

RawOptions ==
  [openInterest : OISamples, volume : VolumeSamples,
   impliedVolatility : IVSamples, lastPrice : LastPriceSamples,
   type : {"call", "put"}, spotPrice : {2}]

\* Lines 127-132.
EffectiveOI(option) ==
  IF Positive(option.openInterest) THEN Round(option.openInterest.v, 10)
  ELSE IF Positive(option.volume) THEN Round(option.volume.v, 10)
  ELSE 1

\* Line 138: typeof ivRaw !== "number" || !isFinite(ivRaw) || ivRaw < 0.001
NeedsRepair(ivRaw) == ~IsFiniteNumber(ivRaw) \/ ivRaw.v < RepairBelow

\* Lines 150-153: Math.max(MIN, Math.min(MAX, iv)); NaN stays NaN.
ClampIV(iv) ==
  IF iv.k = "num" THEN Num(Max(IV_CLAMP_MIN, Min(IV_CLAMP_MAX, iv.v))) ELSE NaN

\* Line 155: Math.max(0.1, impliedVolatility)
GreekSigma(iv) == IF iv.k = "num" THEN Num(Max(GreekSigmaFloor, iv.v)) ELSE NaN

\* Lines 172-180: sign * gamma * openInterest * 100 * spot^2 * 0.01
gammaExposureWrongSign(type, gamma, oi, spotPrice) ==
  gamma * oi * spotPrice * spotPrice
gammaExposure(type, gamma, oi, spotPrice) ==
  safeNum(Num((IF type = "call" THEN 1 ELSE -1) * gamma * oi
              * spotPrice * spotPrice), 0)

\* Number(x) || ...: x is a number other than 0 and NaN.
Truthy(x) == x.k = "inf" \/ (x.k = "num" /\ x.v # 0)

\* The term sumOI adds for one contract (src/api/index.ts:397-399), in tenths
\* of a contract:
\*   Number(openInterest) || (volume ? Math.round(Number(volume) * 0.1) : 0) || 1
sumOITerm(option) ==
  IF Truthy(option.openInterest) THEN option.openInterest.v
  ELSE IF Truthy(option.volume) /\ Round(option.volume.v, 10) # 0
    THEN 10 * Round(option.volume.v, 10)
  ELSE 10

\* sumOI (src/api/index.ts:388-401): options.reduce from 0.
RECURSIVE sumOI(_)
sumOI(options) ==
  IF options = <<>> THEN 0
  ELSE sumOI(SubSeq(options, 1, Len(options) - 1))
         + sumOITerm(options[Len(options)])

InitOption ==
  /\ pc = "sumOI"
  /\ rawOption \in RawOptions
  /\ openInterest = 0 /\ sigma = None /\ ivIter = 0
  /\ ivRepaired = FALSE /\ processed = None /\ netGex = None
  /\ totalOI = None
  /\ ProbIdle /\ RecIdle /\ PipeIdle /\ FlipIdle /\ ScenIdle /\ RestIdle

\* The all-strike totals of the handler (src/api/index.ts:388-404) are taken
\* from the raw contracts before any of them is processed.
SumOI ==
  /\ pc = "sumOI"
  /\ totalOI' = sumOI(<<rawOption>>)
  /\ pc' = "processOption"
  /\ UNCHANGED <<netGex, rawOption, openInterest, sigma, ivIter, ivRepaired,
                 processed, probVars, recVars, pipeVars, flipVars, scenVars,
                 restVars>>

\* Lines 126-148 up to the first call of the pricing model.
ProcessOptionStart ==
  /\ pc = "processOption"
  /\ openInterest' = EffectiveOI(rawOption)
  /\ IF NeedsRepair(rawOption.impliedVolatility)
     THEN /\ sigma' = Num(InitialSigma)
          /\ ivRepaired' = TRUE
          /\ pc' = "ivLoop"
     ELSE /\ sigma' = rawOption.impliedVolatility
          /\ ivRepaired' = FALSE
          /\ pc' = "greek"
  /\ ivIter' = 0
  /\ UNCHANGED <<netGex, totalOI, rawOption, processed, probVars, recVars, pipeVars, flipVars, scenVars, restVars>>

\* One pass of the loop of calculateImpliedVolatility, lines 94-115, the
\* pricing model answering.  The call is outside any try block: an exception
\* of the pricing model leaves processOption.
IvThrows ==
  /\ pc = "ivLoop" /\ ivIter < maxIterations
  /\ pc' = "raised"
  /\ UNCHANGED <<netGex, totalOI, ivIter, sigma, rawOption, openInterest, ivRepaired, processed,
                 probVars, recVars, pipeVars, flipVars, scenVars, restVars>>

\* |diff| < precision: return sigma.  diff is NaN when the target price or
\* sigma is.
IvConverged ==
  /\ pc = "ivLoop" /\ ivIter < maxIterations
  /\ IsFiniteNumber(sigma) /\ IsFiniteNumber(rawOption.lastPrice)
  /\ pc' = "greek"
  /\ UNCHANGED <<netGex, totalOI, ivIter, sigma, rawOption, openInterest, ivRepaired, processed,
                 probVars, recVars, pipeVars, flipVars, scenVars, restVars>>

\* |vega| < 0.00001: break.  vega is NaN when sigma is.
IvFlat ==
  /\ pc = "ivLoop" /\ ivIter < maxIterations
  /\ IsFiniteNumber(sigma)
  /\ pc' = "greek"
  /\ UNCHANGED <<netGex, totalOI, ivIter, sigma, rawOption, openInterest, ivRepaired, processed,
                 probVars, recVars, pipeVars, flipVars, scenVars, restVars>>

\* sigma = sigma - diff / vega, then the clamps of lines 113-114.
IvStep ==
  /\ pc = "ivLoop" /\ ivIter < maxIterations
  /\ \E raw \in NewtonSamples :
       sigma' = IF IsFiniteNumber(sigma) /\ IsFiniteNumber(rawOption.lastPrice)
                THEN Num(IF raw <= 0 THEN 1
                         ELSE IF raw > 50000 THEN 50000 ELSE raw)
                ELSE NaN
  /\ ivIter' = ivIter + 1
  /\ UNCHANGED <<netGex, totalOI, pc, rawOption, openInterest, ivRepaired, processed, probVars, recVars, pipeVars, flipVars, scenVars, restVars>>

\* i = maxIterations: the loop ends, return sigma.
IvExhausted ==
  /\ pc = "ivLoop" /\ ivIter = maxIterations
  /\ pc' = "greek"
  /\ UNCHANGED <<netGex, totalOI, ivIter, sigma, rawOption, openInterest, ivRepaired, processed,
                 probVars, recVars, pipeVars, flipVars, scenVars, restVars>>

ProcessedOption(gamma, modelGamma, threw) ==
  LET iv == ClampIV(sigma)
  IN [type |-> rawOption.type,
      impliedVolatility |-> iv,
      greekSigma |-> GreekSigma(iv),
      openInterest |-> openInterest,
      gamma |-> gamma,
      gex |-> gammaExposure(rawOption.type, gamma, openInterest,
                            rawOption.spotPrice),
      modelGamma |-> modelGamma,   \* result.gamma as the pricing model gave it
      modelThrew |-> threw]

\* Lines 150-192: the pricing model returns a gamma.
ProcessOptionGreeks ==
  /\ pc = "greek"
  /\ \E g \in GammaSamples :
       processed' = ProcessedOption(Abs(safeNum(g, 0)), g, FALSE)
  /\ pc' = "processed"
  /\ UNCHANGED <<netGex, totalOI, rawOption, openInterest, sigma, ivIter, ivRepaired, probVars,
                 recVars, pipeVars, flipVars, scenVars, restVars>>

\* Lines 157-170: the pricing model throws inside the try block; gamma = 0.
ProcessOptionGreeksCaught ==
  /\ pc = "greek"
  /\ processed' = ProcessedOption(0, Undefined, TRUE)
  /\ pc' = "processed"
  /\ UNCHANGED <<netGex, totalOI, rawOption, openInterest, sigma, ivIter, ivRepaired, probVars,
                 recVars, pipeVars, flipVars, scenVars, restVars>>

\* calculateNetGexAtSpot, lines 204-206: the volatility a stored contract is
\* re-priced with.
DefaultSigma == 2000         \* 0.2
repriceSigma(iv) ==
  IF IsFiniteNumber(iv) THEN Num(Max(GreekSigmaFloor, iv.v)) ELSE Num(DefaultSigma)

\* Lines 217-225: the exposure of one contract from result.gamma.  The stored
\* open interest is a number, so opt.openInterest || 0 is the stored value.
gexAtSpot(opt, g, spot) ==
  (IF opt.type = "call" THEN 1 ELSE -1) * Abs(safeNum(g, 0)) * opt.openInterest
    * spot * spot

\* calculateNetGexAtSpot([processed], spotPrice, timeToExpiration): the stored
\* contract re-priced at the spot and time it was processed with.  The pricing
\* model is a function of its arguments: asked with the volatility that
\* processOption used it answers, or throws, as it did then; asked with
\* another one it answers anything.
NetGexAtSpot ==
  /\ pc = "processed"
  /\ IF repriceSigma(processed.impliedVolatility) = processed.greekSigma
     THEN netGex' = IF processed.modelThrew
                      THEN 0
                      ELSE gexAtSpot(processed, processed.modelGamma,
                                     rawOption.spotPrice)
     ELSE \/ \E g \in GammaSamples :
               netGex' = gexAtSpot(processed, g, rawOption.spotPrice)
          \/ netGex' = 0     \* the catch of lines 226-228
  /\ pc' = "repriced"
  /\ UNCHANGED <<totalOI, rawOption, openInterest, sigma, ivIter, ivRepaired,
                 processed, probVars, recVars, pipeVars, flipVars, scenVars,
                 restVars>>

NextOption ==
  \/ SumOI
  \/ ProcessOptionStart
  \/ IvThrows
  \/ IvConverged
  \/ IvFlat
  \/ IvStep
  \/ IvExhausted
  \/ ProcessOptionGreeks
  \/ ProcessOptionGreeksCaught
  \/ NetGexAtSpot

SpecOption == InitOption /\ [][NextOption]_vars

\* C2: the effective open interest processOption stores is an integer >= 1:
\* the reported open interest when it is > 0, otherwise round(volume x 0.1)
\* when that is > 0, otherwise 1.
C2_EffectiveOIAtLeastOne ==
  pc = "processed" =>
    /\ processed.openInterest >= 1
    /\ processed.openInterest =
         (IF Positive(rawOption.openInterest)
             /\ Round(rawOption.openInterest.v, 10) > 0
          THEN Round(rawOption.openInterest.v, 10)
          ELSE IF Positive(rawOption.volume)
                  /\ Round(rawOption.volume.v, 10) > 0
               THEN Round(rawOption.volume.v, 10)
               ELSE 1)

\* C6: for every ProcessedOption the exposure sign matches the side
\* (call => gex >= 0, put => gex <= 0) and gex = 0 whenever the computed
\* gamma is 0, whatever the pricing model returned for gamma.
C6_ExposureSign ==
  pc = "processed" =>
    /\ processed.type = "call" => processed.gex >= 0
    /\ processed.type = "put" => processed.gex <= 0
    /\ processed.gamma = 0 => processed.gex = 0

\* C6 witness: a put with open interest for which the pricing model returned
\* a negative gamma has been processed.
C6_Witness ==
  /\ pc = "processed"
  /\ processed.type = "put"
  /\ processed.modelGamma = Num(-3)
  /\ processed.openInterest > 0
  /\ processed.gex < 0

\* C7: processOption never raises; whenever the pricing model throws, also
\* during implied-volatility repair, a ProcessedOption with gamma = 0 and
\* exposure = 0 is still returned.
C7_NeverRaises ==
  /\ pc # "raised"
  /\ (pc = "processed" /\ processed.modelThrew) =>
       (processed.gamma = 0 /\ processed.gex = 0)

\* C21: the volatility given to the pricing model for gamma is exactly the
\* clamped implied volatility stored on the processed contract, also when
\* that is below 0.1.
C21_GammaAtStoredIV ==
  pc = "processed" => processed.greekSigma = processed.impliedVolatility

\* C21, the part that holds: a stored volatility of 0.1 or more is the one
\* gamma is priced with.
C21_GammaAtStoredIVFromFloor ==
  (pc = "processed" /\ processed.impliedVolatility.k = "num"
     /\ processed.impliedVolatility.v >= GreekSigmaFloor) =>
    processed.greekSigma = processed.impliedVolatility

\* C21: a contract reported with a volatility of 0.05 keeps it, and its gamma
\* is priced at 0.1.
C21_GammaAtFloor ==
  /\ pc = "processed"
  /\ ~ivRepaired
  /\ processed.impliedVolatility = Num(500)
  /\ processed.greekSigma = Num(GreekSigmaFloor)

\* C26: for a contract processed at spot S and time T, calculateNetGexAtSpot
\* at the same S and T re-prices it with the volatility and open interest
\* processOption used, so the value it returns equals the stored gex.
C26_RepricedEqualsStored ==
  pc = "repriced" => netGex = processed.gex

\* What holds: the two agree for every contract whose stored implied
\* volatility is a finite number.
C26_RepricedEqualsStoredFiniteIV ==
  (pc = "repriced" /\ processed.impliedVolatility.k = "num") =>
    netGex = processed.gex

\* A contract stored with a NaN implied volatility and no exposure, re-priced
\* at the default volatility to a non-zero exposure.
C26_StoredIVNaNRepricedAtDefault ==
  /\ pc = "repriced"
  /\ processed.impliedVolatility.k = "nan"
  /\ processed.modelGamma.k = "nan"
  /\ processed.gex = 0
  /\ netGex # 0

\* C30: the effective open interest sumOI counts for a raw contract equals
\* the effective open interest processOption stores for it, whatever the
\* reported open interest and volume are.
C30_FallbacksAgree ==
  pc \in {"processed", "repriced"} => totalOI = 10 * processed.openInterest

\* What holds: the two agree when the reported open interest is a whole
\* number of contracts > 0, and, that failing, when round(volume x 0.1) >= 1
\* or there is no positive volume.
C30_AgreeOnWholePositive ==
  (/\ pc \in {"processed", "repriced"}
   /\ \/ Positive(rawOption.openInterest) /\ rawOption.openInterest.v % 10 = 0
      \/ /\ ~Truthy(rawOption.openInterest)
         /\ Positive(rawOption.volume) => Round(rawOption.volume.v, 10) >= 1)
    => totalOI = 10 * processed.openInterest

\* A negative reported open interest: sumOI counts it as it is, processOption
\* falls back to the volume.
C30_NegativeOICounted ==
  /\ pc = "processed"
  /\ rawOption.openInterest = Num(-10)
  /\ totalOI = -10
  /\ processed.openInterest >= 0

\* C22: the implied volatility stored is a finite number of [0.0001, 5.0]
\* for every contract, and the inversion ran exactly when the reported one is
\* not a finite number >= 0.001.
C22_StoredIVFiniteInClamp ==
  pc = "processed" =>
    /\ processed.impliedVolatility.k = "num"
    /\ processed.impliedVolatility.v >= 1
    /\ processed.impliedVolatility.v <= 50000
    /\ ivRepaired <=> ~(rawOption.impliedVolatility.k = "num"
                          /\ rawOption.impliedVolatility.v >= 10)

\* C22, the part that holds: the inversion ran exactly when the reported
\* volatility is not a finite number >= 0.001, and a stored volatility that
\* is a number lies in [0.0001, 5.0].
C22_RepairedExactlyWhenUnusable ==
  pc = "processed" =>
    /\ ivRepaired <=> ~(rawOption.impliedVolatility.k = "num"
                          /\ rawOption.impliedVolatility.v >= 10)
    /\ processed.impliedVolatility.k = "num" =>
         processed.impliedVolatility.v \in 1..50000

\* C22: a contract without a last price whose volatility had to be inverted
\* is stored with the volatility NaN.
C22_StoredIVIsNaN ==
  /\ pc = "processed"
  /\ ivRepaired
  /\ rawOption.lastPrice = Undefined
  /\ ivIter > 0
  /\ processed.impliedVolatility.k = "nan"


-----------------------------------------------------------------------------
(* generateRecommendations (part_008:365-432) and the status lookup        *)
(* (backtest-qqq.ts:285-290, part_000:143-150).                            *)
(* The arguments are numerators over den; every min and max returned is a  *)
(* numerator over 10000 * den, which holds currentPrice * 0.02, the halves *)
(* and tenths of the range, and low * 0.97 exactly.                        *)

MaxLevel == 4       \* largest support / resistance given to the band generator

CurrentPriceSamples == {1, 3, 100, 250, 500}

StatusNames ==
  <<"Extreme Risk", "Strong Buy", "Buy", "Neutral", "Sell", "Strong Sell">>

\* Lines 370-385, the breakpoints.
Breakpoints(support, resistance, currentPrice, den) ==
  LET low0 == Min(support, resistance)
      high0 == Max(support, resistance)
      \* minWidth = currentPrice * 0.02; high - low < minWidth
      expand == 100 * (high0 - low0) < 2 * currentPrice
      \* center = (low + high) / 2; low = center - minWidth / 2; times 100
      low == IF expand THEN 50 * (low0 + high0) - currentPrice ELSE 100 * low0
      high == IF expand THEN 50 * (low0 + high0) + currentPrice
              ELSE 100 * high0
  IN [panicLevel |-> 97 * low,                                \* low * 0.97
      low |-> 100 * low,
      \* mid - range * 0.1, mid = (low + high) / 2, range = high - low
      neutralStart |-> 10 * (5 * (low + high) - (high - low)),
      neutralEnd |-> 10 * (5 * (low + high) + (high - low)),
      high |-> 100 * high,
      top |-> 100 * high + 20 * 10000 * den,                  \* high + 20
      expanded |-> expand]

\* Lines 387-431, the list returned.
generateRecommendations(support, resistance, currentPrice, den) ==
  LET b == Breakpoints(support, resistance, currentPrice, den)
  IN << [status |-> "Extreme Risk", min |-> 0, max |-> b.panicLevel],
        [status |-> "Strong Buy", min |-> b.panicLevel, max |-> b.low],
        [status |-> "Buy", min |-> b.low, max |-> b.neutralStart],
        [status |-> "Neutral", min |-> b.neutralStart, max |-> b.neutralEnd],
        [status |-> "Sell", min |-> b.neutralEnd, max |-> b.high],
        [status |-> "Strong Sell", min |-> b.high, max |-> b.top] >>

\* rec => price >= rec.min && price < rec.max
InBandClosed(price, rec) == price >= rec.min /\ price <= rec.max
InBand(price, rec) == price >= rec.min /\ price < rec.max

BandsHolding(price, recs) == {i \in 1..Len(recs) : InBand(price, recs[i])}

\* recommendations.find(...) || recommendations[recommendations.length - 1]
getStatus(price, recs) ==
  IF BandsHolding(price, recs) # {}
  THEN CHOOSE i \in BandsHolding(price, recs) :
         \A j \in BandsHolding(price, recs) : i <= j
  ELSE Len(recs)

\* Prices looked up: every breakpoint, its two neighbours, and one far above.
ProbePrices(recs) ==
  LET marks == {recs[i].min : i \in 1..Len(recs)}
               \cup {recs[i].max : i \in 1..Len(recs)}
  IN {p \in marks \cup {m - 1 : m \in marks} \cup {m + 1 : m \in marks}
             \cup {2 * recs[Len(recs)].max} : p > 0}

InitRec ==
  /\ pc = "generateRecommendations"
  /\ recArgs \in [support : 1..MaxLevel, resistance : 1..MaxLevel,
                  currentPrice : CurrentPriceSamples]
  /\ recommendations = None /\ statusPrice = 0 /\ status = 0
  /\ ProbIdle /\ OptIdle /\ PipeIdle /\ FlipIdle /\ ScenIdle /\ RestIdle

CallGenerateRecommendations ==
  /\ pc = "generateRecommendations"
  /\ recommendations' = generateRecommendations(recArgs.support,
                          recArgs.resistance, recArgs.currentPrice, 1)
  /\ pc' = "bands"
  /\ UNCHANGED <<recArgs, statusPrice, status, probVars, optVars,
                 pipeVars, flipVars, scenVars, restVars>>

CallGetStatus ==
  /\ pc = "bands"
  /\ \E p \in ProbePrices(recommendations) :
       /\ statusPrice' = p
       /\ status' = getStatus(p, recommendations)
  /\ pc' = "status"
  /\ UNCHANGED <<recArgs, recommendations, probVars, optVars, pipeVars, flipVars, scenVars, restVars>>

NextRec == CallGenerateRecommendations \/ CallGetStatus

SpecRec == InitRec /\ [][NextRec]_vars

RecsReturned == pc \in {"bands", "status"}

\* C3: generateRecommendations returns exactly six bands in the order Extreme
\* Risk .. Strong Sell whose breakpoints are non-decreasing
\* (0 <= panicLevel <= low <= neutralStart <= neutralEnd <= high) and
\* contiguous, for all positive support, resistance and currentPrice.
C3_OrderedContiguous ==
  RecsReturned =>
    /\ Len(recommendations) = 6
    /\ \A i \in 1..6 : recommendations[i].status = StatusNames[i]
    /\ recommendations[1].min = 0
    /\ \A i \in 2..6 : recommendations[i].min = recommendations[i - 1].max
    /\ 0 <= recommendations[1].max
    /\ \A i \in 1..5 : recommendations[i].min <= recommendations[i].max

\* C4 as claimed: every price p > 0 lies in exactly one band [min, max).
C4_ExhaustiveOverAllPrices ==
  pc = "status" =>
    Cardinality(BandsHolding(statusPrice, recommendations)) = 1

\* C4 as amended: every price p with 0 < p < high + 20 lies in exactly one
\* band [min, max), the band the lookup returns; a price p >= high + 20 lies
\* in no band.
C4_ExhaustiveBelowTop ==
  pc = "status" =>
    IF statusPrice < recommendations[6].max
    THEN BandsHolding(statusPrice, recommendations) = {status}
    ELSE BandsHolding(statusPrice, recommendations) = {}

\* C4 witness: after the minimum-width expansion a price on the boundary
\* shared by Neutral and Sell was looked up and found in Sell alone.
C4_Witness ==
  /\ pc = "status"
  /\ Breakpoints(recArgs.support, recArgs.resistance, recArgs.currentPrice,
                 1).expanded
  /\ statusPrice = recommendations[4].max
  /\ status = 5
  /\ BandsHolding(statusPrice, recommendations) = {5}


-----------------------------------------------------------------------------
\* calculateGammaAdjustedExpectedPrice (src/unnamed/part_008:48-78).
\*
\* Prices are whole dollars, the sentiment a whole number of [-100, 100].
\* The value returned is kept as its numerator over BiasScale: the biases
\* 0.3 * sentiment / 100 and 0.2 * gammaBiasRaw times rangeHalf are whole
\* numbers of 1 / BiasScale.

BiasScale == 1000

RangeMids == {100, 101}
RangeHalves == {-1, 0, 2, 5}
Sentiments == {-100, -40, 0, 50, 100}
GammaFlips == {NaN, Num(90), Num(99), Num(100), Num(102), Num(110)}
TotalGexes == {-3, 0, 4}

\* Math.min(max, Math.max(min, value))
clamp(value, lo, hi) == Min(hi, Max(lo, value))

\* totalGex >= 0 ? 1 : -1
gammaSign(totalGex) == IF totalGex >= 0 THEN 1 ELSE -1

\* rangeHalf * combinedBias, in units of 1 / BiasScale, for rangeHalf > 0.
combinedBias(in) ==
  LET sentimentBias == 3 * in.sentiment * in.rangeHalf
      gammaBiasRaw ==
        IF IsFiniteNumber(in.gammaFlip)
          THEN clamp(in.gammaFlip.v - in.rangeMid, -in.rangeHalf, in.rangeHalf)
          ELSE 0
      gammaBias == gammaBiasRaw * gammaSign(in.totalGex) * 200
  IN clamp(sentimentBias + gammaBias, -350 * in.rangeHalf, 350 * in.rangeHalf)

calculateGammaAdjustedExpectedPrice(in) ==
  IF in.rangeHalf <= 0 THEN BiasScale * in.rangeMid
  ELSE BiasScale * in.rangeMid + combinedBias(in)

InitExpected ==
  /\ pc = "expectedPrice"
  /\ biasArgs \in [rangeMid : RangeMids, rangeHalf : RangeHalves,
                   sentiment : Sentiments, gammaFlip : GammaFlips,
                   totalGex : TotalGexes]
  /\ biasedPrice = None
  /\ ProbIdle /\ OptIdle /\ RecIdle /\ PipeIdle /\ FlipIdle /\ ScenIdle
  /\ BetaIdle /\ ProjIdle /\ SentIdle /\ ReqIdle

CallCalculateGammaAdjustedExpectedPrice ==
  /\ pc = "expectedPrice"
  /\ biasedPrice' = calculateGammaAdjustedExpectedPrice(biasArgs)
  /\ pc' = "expectedPriceDone"
  /\ UNCHANGED <<biasArgs, probVars, optVars, recVars, pipeVars, flipVars, scenVars,
                 betaVars, projVars, sentVars, reqVars>>

NextExpected == CallCalculateGammaAdjustedExpectedPrice

SpecExpected == InitExpected /\ [][NextExpected]_vars

\* The formula of the claim, sign(0) = 0, in units of 1 / BiasScale.
ExpectedPriceBySign(in) ==
  LET sign == IF in.totalGex > 0 THEN 1 ELSE IF in.totalGex < 0 THEN -1 ELSE 0
      d == in.gammaFlip.v - in.rangeMid
      raw == IF d > in.rangeHalf THEN in.rangeHalf
             ELSE IF d < -in.rangeHalf THEN -in.rangeHalf ELSE d
      sum == 3 * in.sentiment * in.rangeHalf + 200 * raw * sign
      cap == 350 * in.rangeHalf
  IN BiasScale * in.rangeMid
       + (IF sum > cap THEN cap ELSE IF sum < -cap THEN -cap ELSE sum)

\* C23: rangeMid is returned unmodified when rangeHalf <= 0; otherwise the
\* value is rangeMid + rangeHalf * clamp(sentiment / 100 * 0.3
\* + clamp((gammaFlip - rangeMid) / rangeHalf, -1, 1) * sign(totalExposure)
\* * 0.2, -0.35, 0.35) with sign in {-1, 0, 1}, hence within
\* rangeMid +/- 0.35 * rangeHalf.
C23_ExpectedPriceFormula ==
  (pc = "expectedPriceDone" /\ IsFiniteNumber(biasArgs.gammaFlip)) =>
    /\ biasArgs.rangeHalf <= 0 => biasedPrice = BiasScale * biasArgs.rangeMid
    /\ biasArgs.rangeHalf > 0 =>
         /\ biasedPrice = ExpectedPriceBySign(biasArgs)
         /\ Abs(biasedPrice - BiasScale * biasArgs.rangeMid)
              <= 350 * biasArgs.rangeHalf

\* C23, the part that holds: the formula for a total exposure other than
\* zero, and the bound and the rangeHalf <= 0 case for every input.
C23_FormulaForNonZeroExposure ==
  pc = "expectedPriceDone" =>
    /\ biasArgs.rangeHalf <= 0 => biasedPrice = BiasScale * biasArgs.rangeMid
    /\ biasArgs.rangeHalf > 0 =>
         /\ Abs(biasedPrice - BiasScale * biasArgs.rangeMid)
              <= 350 * biasArgs.rangeHalf
         /\ (IsFiniteNumber(biasArgs.gammaFlip) /\ biasArgs.totalGex # 0) =>
              biasedPrice = ExpectedPriceBySign(biasArgs)

\* C23: with a total exposure of zero and a gamma flip above the middle of
\* the range the price returned is above the middle, as for a positive
\* exposure.
C23_ZeroExposureCountsAsPositive ==
  /\ pc = "expectedPriceDone"
  /\ biasArgs.totalGex = 0 /\ biasArgs.sentiment = 0
  /\ biasArgs.rangeHalf > 0
  /\ IsFiniteNumber(biasArgs.gammaFlip)
  /\ biasArgs.gammaFlip.v > biasArgs.rangeMid
  /\ biasedPrice > BiasScale * biasArgs.rangeMid

-----------------------------------------------------------------------------
(* The per-expiration levels and their aggregation: /api/analysis          *)
(* (api/index.ts:409-639) and the backtest (backtest-qqq.ts:172-290,       *)
(* 400-428).  Prices are in dollars, the current price a multiple of 100.  *)
(* A contract of a chain is [strike, openInterest], the open interest as   *)
(* processOption stored it.                                                *)
(* calculateExpectedMoveRange multiplies by Math.sqrt(max(T, 1/365)): its  *)
(* factor avgIv * sqrt(..) * 0.4 is an input here, moveRatio, in percent   *)
(* of the current price; it is positive when every stored implied          *)
(* volatility near the money is a number (at least IV_CLAMP_MIN) and NaN   *)
(* when one of them is NaN.                                                *)

MaxExp == 2         \* expirations analysed in one request
MaxChain == 2       \* contracts per side of one option chain

CurrentPrices == {100}
\* strike as a percentage of the current price, open interest
ContractSamples == {<<88, 2>>, <<96, 2>>, <<100, 1>>, <<104, 1>>, <<104, 2>>}
MoveRatioSamples == {Num(3), NaN}
\* Time is counted in quarters of a day from the handler's `now`
\* (api/index.ts:313).  isoDate of an expiration, 16:00 New York of its date:
\* six hours ago, half a day ahead, four days ahead.
IsoDateSamples == {-1, 2, 16}
\* The clock read by calculateWeightedLevel (api/index.ts:602): at `now`, or
\* three days later when the stored results are aggregated again.
ClockSamples == {0, 12}
OneDay == 4             \* 1 / 365 of a year
QuartersPerYear == 1460 \* 1000 * 60 * 60 * 24 * 365 ms

Chains(cp) ==
  SeqsUpTo({[strike |-> (cp * c[1]) \div 100, openInterest |-> c[2]] :
              c \in ContractSamples}, MaxChain)

\* api/index.ts:410-420: strike > cp * 0.9 && strike < cp * 1.1
InFilterRange(opt, cp) == 10 * opt.strike > 9 * cp /\ 10 * opt.strike < 11 * cp
filterRaw(options, cp) ==
  SelectSeq(options, LAMBDA opt : InFilterRange(opt, cp))

\* options.reduce((p, c) => c.openInterest > p.openInterest ? c : p, first)
RECURSIVE MaxOIContract(_, _)
MaxOIContract(options, best) ==
  IF options = <<>> THEN best
  ELSE MaxOIContract(Tail(options),
         IF Head(options).openInterest > best.openInterest
         THEN Head(options) ELSE best)

AtOrAbove(opt, cp) == opt.strike >= cp
AtOrBelow(opt, cp) == opt.strike <= cp

\* api/index.ts:460-468; the fallback is currentPrice * 1.02.
callWall(calls, cp) ==
  LET callOptions == SelectSeq(calls, LAMBDA c : AtOrAbove(c, cp))
  IN IF Len(callOptions) > 0
     THEN MaxOIContract(callOptions, callOptions[1]).strike
     ELSE (102 * cp) \div 100

\* api/index.ts:471-479; the fallback is currentPrice * 0.98.
putWall(puts, cp) ==
  LET putOptions == SelectSeq(puts, LAMBDA p : AtOrBelow(p, cp))
  IN IF Len(putOptions) > 0
     THEN MaxOIContract(putOptions, putOptions[1]).strike
     ELSE (98 * cp) \div 100

\* part_008:352-362 with expectedMove = currentPrice * moveRatio / 100.
calculateExpectedMoveRange(cp, moveRatio) ==
  IF IsFiniteNumber(moveRatio)
    THEN [expectedUpper |-> Num(cp + (cp * moveRatio.v) \div 100),
          expectedLower |-> Num(cp - (cp * moveRatio.v) \div 100)]
    ELSE [expectedUpper |-> NaN, expectedLower |-> NaN]

\* Math.max(a, b) and Math.min(a, b) for a number a: NaN when b is.
MathMax(a, b) == IF IsFiniteNumber(b) THEN Num(Max(a, b.v)) ELSE NaN
MathMin(a, b) == IF IsFiniteNumber(b) THEN Num(Min(a, b.v)) ELSE NaN

\* What a task hands to calculateGammaAdjustedExpectedPrice besides the range:
\* the sentiment, the gamma flip (a price of the scan window) and the total
\* exposure of its chain.
BiasSamples ==
  {[sentiment |-> -100, gammaFlip |-> 90, totalGex |-> 4],
   [sentiment |-> 100, gammaFlip |-> 110, totalGex |-> 4],
   [sentiment |-> 50, gammaFlip |-> 110, totalGex |-> -3]}

\* api/index.ts:536-548.  rangeMid and rangeHalf are kept doubled, and so is
\* expectedPrice, a numerator over 2 * BiasScale.
expectedPriceOf(putSupport, callResistance, range, bias) ==
  LET realisticSupport == MathMax(putSupport, range.expectedLower)
      realisticResistance == MathMin(callResistance, range.expectedUpper)
  IN IF IsFiniteNumber(realisticSupport) /\ IsFiniteNumber(realisticResistance)
     THEN [realisticSupport |-> realisticSupport,
           realisticResistance |-> realisticResistance,
           rangeHalf |-> Num(realisticResistance.v - realisticSupport.v),
           expectedPrice |->
             Num(calculateGammaAdjustedExpectedPrice(
                   [rangeMid |-> realisticSupport.v + realisticResistance.v,
                    rangeHalf |-> realisticResistance.v - realisticSupport.v,
                    sentiment |-> bias.sentiment,
                    gammaFlip |-> Num(2 * bias.gammaFlip),
                    totalGex |-> bias.totalGex]))]
     \* !isFinite(rangeHalf): rangeMid, a NaN, is returned
     ELSE [realisticSupport |-> realisticSupport,
           realisticResistance |-> realisticResistance,
           rangeHalf |-> NaN,
           expectedPrice |-> NaN]

\* api/index.ts:377-382: the time to expiration a task prices its contracts
\* with, in years, as a ratio n / d.
timeToExpiration(isoDate) ==
  IF isoDate <= 0 THEN [n |-> 1, d |-> 1000000]
  ELSE [n |-> isoDate, d |-> QuartersPerYear]

\* api/index.ts:605-609: t of the weighting loop, in years, as a ratio n / d.
WeightingT(isoDate, nowTs) ==
  [n |-> Max(isoDate - nowTs, OneDay), d |-> QuartersPerYear]

\* The plain average: every expiration weighs the same.
WeightUniform(t) == 12

\* api/index.ts:605-610: t = max(T, 1 / 365), w = 1 / Math.sqrt(t), for T of
\* t quarters of a day.  For max(t, 4) a perfect square
\* w = sqrt(1460) / sqrt(max(t, 4)); the common factor sqrt(1460) / 24
\* cancels in vSum / wSum, which leaves 24 / sqrt(..).
Weight(t) ==
  LET d == Max(t, OneDay)
      r == CHOOSE x \in 1..d : x * x = d
  IN 24 \div r

LevelOf(r, key) ==
  CASE key = "putSupport" -> r.putSupport
    [] key = "callResistance" -> r.callResistance
    [] key = "expectedLower" -> r.expectedLower.v
    [] key = "expectedUpper" -> r.expectedUpper.v

\* api/index.ts:596-615.  wSum and vSum of the loop; the level returned is
\* vSum / wSum, a numerator vSum over wSum.
wSum(items, nowTs) ==
  SumSeq([i \in 1..Len(items) |-> Weight(items[i].isoDate - nowTs)])
vSum(items, key, nowTs) ==
  SumSeq([i \in 1..Len(items) |->
            LevelOf(items[i], key) * Weight(items[i].isoDate - nowTs)])

\* vSum += r[key] * w is NaN as soon as one expected level is.
FiniteLevels(items) ==
  \A i \in 1..Len(items) :
    IsFiniteNumber(items[i].expectedLower)
      /\ IsFiniteNumber(items[i].expectedUpper)

\* api/index.ts:617-627.  Numerators over den = wSum(items, nowTs); nowTs is
\* the clock the four calls of calculateWeightedLevel read.  Math.max and
\* Math.min of a NaN expected level are NaN: finite is FALSE and the two
\* levels are left at 0.
AggregateLevels(items, nowTs) ==
  [realisticSupport |->
     IF FiniteLevels(items)
       THEN Max(vSum(items, "putSupport", nowTs),
                vSum(items, "expectedLower", nowTs))
       ELSE 0,
   realisticResistance |->
     IF FiniteLevels(items)
       THEN Min(vSum(items, "callResistance", nowTs),
                vSum(items, "expectedUpper", nowTs))
       ELSE 0,
   finite |-> FiniteLevels(items),
   den |-> wSum(items, nowTs),
   nowTs |-> nowTs]

\* generateRecommendations(NaN, NaN, currentPrice): every breakpoint is NaN and
\* no price passes price >= rec.min && price < rec.max.  A band with a NaN
\* bound is kept as the empty band [0, 0).
recommendationsOfNaN ==
  [i \in 1..Len(StatusNames) |-> [status |-> StatusNames[i], min |-> 0, max |-> 0]]

InitAnalysis ==
  /\ pc = "analysis"
  /\ marketPrice \in CurrentPrices
  /\ validResults = <<>>
  /\ expiration = None
  /\ aggregate = None
  /\ recArgs = None /\ recommendations = None /\ statusPrice = 0
  /\ status = 0
  /\ ProbIdle /\ OptIdle /\ FlipIdle /\ ScenIdle /\ RestIdle

\* One per-expiration task, api/index.ts:409-415 and 460-468: the provider's
\* calls are filtered; the call wall is the one of the filtered calls.
FilterCalls ==
  /\ pc = "analysis" /\ Len(validResults) < MaxExp
  /\ \E calls \in Chains(marketPrice) :
       LET fc == filterRaw(calls, marketPrice)
       IN expiration' = [calls |-> Len(fc),
                         callWall |-> callWall(fc, marketPrice)]
  /\ pc' = "puts"
  /\ UNCHANGED <<marketPrice, validResults, aggregate, recVars, probVars,
                 optVars, flipVars, scenVars, restVars>>

\* api/index.ts:416-428 and 471-479: the puts are filtered, a chain with
\* nothing in range yields null, and the put wall is extracted.
FilterPuts ==
  /\ pc = "puts"
  /\ \E puts \in Chains(marketPrice) :
       LET fp == filterRaw(puts, marketPrice)
       IN IF expiration.calls = 0 /\ Len(fp) = 0
          THEN expiration' = None /\ pc' = "analysis"
          ELSE /\ expiration' = [putWall |-> putWall(fp, marketPrice),
                                 callWall |-> expiration.callWall]
               /\ pc' = "range"
  /\ UNCHANGED <<marketPrice, validResults, aggregate, recVars, probVars,
                 optVars, flipVars, scenVars, restVars>>

\* api/index.ts:507-573: the expected range and the result of the task.
AnalyseExpiration ==
  /\ pc = "range"
  /\ \E moveRatio \in MoveRatioSamples, isoDate \in IsoDateSamples,
        bias \in BiasSamples :
       LET range == calculateExpectedMoveRange(marketPrice, moveRatio)
       IN /\ validResults' = Append(validResults,
               [putSupport |-> expiration.putWall,
                callResistance |-> expiration.callWall,
                expectedLower |-> range.expectedLower,
                expectedUpper |-> range.expectedUpper,
                isoDate |-> isoDate])
          \* the fields of the result that the aggregation does not read
          /\ expiration' = expectedPriceOf(expiration.putWall,
                              expiration.callWall, range, bias)
  /\ pc' = "analysis"
  /\ UNCHANGED <<marketPrice, aggregate, recVars, probVars, optVars,
                 flipVars, scenVars, restVars>>

\* api/index.ts:585-639: the aggregate levels and the bands.
Aggregate ==
  /\ pc = "analysis" /\ Len(validResults) > 0
  /\ \E nowTs \in ClockSamples :
       aggregate' = AggregateLevels(validResults, nowTs)
  /\ recommendations' =
       IF aggregate'.finite
         THEN generateRecommendations(aggregate'.realisticSupport,
                aggregate'.realisticResistance, marketPrice * aggregate'.den,
                aggregate'.den)
         ELSE recommendationsOfNaN
  /\ expiration' = None     \* the tasks are over
  /\ pc' = "aggregated"
  /\ UNCHANGED <<marketPrice, validResults, recArgs, statusPrice,
                 status, probVars, optVars, flipVars, scenVars, restVars>>

\* backtest-qqq.ts:428, part_000:143-150: the status of the current price.
CurrentStatus ==
  /\ pc = "aggregated"
  /\ statusPrice' = marketPrice * 10000 * aggregate.den
  /\ status' = getStatus(statusPrice', recommendations)
  /\ pc' = "currentStatus"
  /\ UNCHANGED <<marketPrice, validResults, expiration, aggregate, recArgs,
                 recommendations, probVars, optVars, flipVars, scenVars, restVars>>

NextAnalysis ==
  FilterCalls \/ FilterPuts \/ AnalyseExpiration \/ Aggregate \/ CurrentStatus

SpecAnalysis == InitAnalysis /\ [][NextAnalysis]_vars

\* C5: in the end-to-end pipeline the bands built from the aggregate levels
\* place the current price in exactly one band [min, max), so the status
\* lookup never uses its last-band fallback.
C5_CurrentPriceInOneBand ==
  pc = "currentStatus" =>
    BandsHolding(statusPrice, recommendations) = {status}

\* C5, the part that holds: whenever every expected level aggregated is a
\* number the current price is in exactly one band.
C5_InOneBandWithFiniteLevels ==
  (pc = "currentStatus" /\ aggregate.finite) =>
    BandsHolding(statusPrice, recommendations) = {status}

\* C5: one expiration whose expected range is NaN makes every aggregate level
\* and every breakpoint NaN; no band holds the current price and the lookup
\* falls back on the last band.
C5_NaNLevelsLastBand ==
  /\ pc = "currentStatus"
  /\ ~aggregate.finite
  /\ BandsHolding(statusPrice, recommendations) = {}
  /\ status = Len(recommendations)

\* C5 witness: two expirations of different weight were aggregated, one of
\* them with the 0.98 x fallback for its put wall, and the current price was
\* found in a band.
C5_Witness ==
  /\ pc = "currentStatus"
  /\ Len(validResults) = 2
  /\ Weight(validResults[1].isoDate - aggregate.nowTs)
       # Weight(validResults[2].isoDate - aggregate.nowTs)
  /\ 100 * validResults[1].putSupport = 98 * marketPrice
  /\ validResults[2].callResistance > marketPrice
  /\ status \in BandsHolding(statusPrice, recommendations)


\* The time the weighting loop gives the i-th result.
WeightedT(i) == validResults[i].isoDate - aggregate.nowTs

Aggregated == pc \in {"aggregated", "currentStatus"}

\* The state after a task returned its snapshot.
SnapshotReturned == pc = "analysis" /\ "expectedPrice" \in DOMAIN expiration

\* C27: every snapshot of the per-expiration pipeline has
\* putSupport <= currentPrice <= callResistance (the 0.98 x and 1.02 x
\* fallbacks included), hence
\* max(putSupport, expectedLower) <= currentPrice
\*   <= min(callResistance, expectedUpper),
\* rangeHalf >= 0 and expectedPrice within
\* [realisticSupport, realisticResistance].
C27_SnapshotOrdering ==
  SnapshotReturned =>
    LET r == validResults[Len(validResults)]
    IN /\ r.putSupport <= marketPrice /\ marketPrice <= r.callResistance
       /\ IsFiniteNumber(r.expectedLower) /\ IsFiniteNumber(r.expectedUpper)
       /\ Max(r.putSupport, r.expectedLower.v) <= marketPrice
       /\ marketPrice <= Min(r.callResistance, r.expectedUpper.v)
       /\ IsFiniteNumber(expiration.rangeHalf) /\ expiration.rangeHalf.v >= 0
       /\ IsFiniteNumber(expiration.expectedPrice)
       /\ expiration.expectedPrice.v
            >= 2 * BiasScale * Max(r.putSupport, r.expectedLower.v)
       /\ expiration.expectedPrice.v
            <= 2 * BiasScale * Min(r.callResistance, r.expectedUpper.v)

\* C27, the part that holds: the walls straddle the current price in every
\* snapshot, and the rest follows whenever the expected range is a number.
C27_OrderingWithFiniteRange ==
  SnapshotReturned =>
    LET r == validResults[Len(validResults)]
    IN /\ r.putSupport <= marketPrice /\ marketPrice <= r.callResistance
       /\ IsFiniteNumber(r.expectedLower) =>
            /\ Max(r.putSupport, r.expectedLower.v) <= marketPrice
            /\ marketPrice <= Min(r.callResistance, r.expectedUpper.v)
            /\ IsFiniteNumber(expiration.rangeHalf)
            /\ expiration.rangeHalf.v >= 0
            /\ expiration.expectedPrice.v
                 >= 2 * BiasScale * Max(r.putSupport, r.expectedLower.v)
            /\ expiration.expectedPrice.v
                 <= 2 * BiasScale * Min(r.callResistance, r.expectedUpper.v)

\* C27: a snapshot whose chain holds a NaN implied volatility near the money:
\* the expected range, rangeHalf and expectedPrice are NaN.
C27_SnapshotWithNaNRange ==
  /\ SnapshotReturned
  /\ validResults[Len(validResults)].expectedLower.k = "nan"
  /\ validResults[Len(validResults)].putSupport < marketPrice
  /\ expiration.rangeHalf.k = "nan"
  /\ expiration.expectedPrice.k = "nan"

\* C27: a snapshot with walls on both sides, a positive rangeHalf and an
\* expected price strictly inside the range, off its middle.
C27_SnapshotBiased ==
  /\ SnapshotReturned
  /\ expiration.rangeHalf.k = "num" /\ expiration.rangeHalf.v > 0
  /\ expiration.expectedPrice.v
       # BiasScale * (expiration.realisticSupport.v
                       + expiration.realisticResistance.v)
  /\ expiration.expectedPrice.v > 2 * BiasScale * expiration.realisticSupport.v

SameLevelsAt(nowTs) ==
  LET other == AggregateLevels(validResults, nowTs)
  IN /\ aggregate.realisticSupport * other.den
          = other.realisticSupport * aggregate.den
     /\ aggregate.realisticResistance * other.den
          = other.realisticResistance * aggregate.den

\* C18: the aggregate support and resistance of the same results are the
\* same whatever clock value the aggregation reads, and the time used for
\* the weight of an expiration is the time its task processed it with.
C18_NoClockDependence ==
  Aggregated =>
    /\ \A nowTs \in ClockSamples : SameLevelsAt(nowTs)
    /\ \A i \in 1..Len(validResults) :
         LET w == WeightingT(validResults[i].isoDate, aggregate.nowTs)
             p == timeToExpiration(validResults[i].isoDate)
         IN w.n * p.d = p.n * w.d

\* C18: the same two results aggregated after the clock has moved on give
\* another support or resistance than at the handler's `now`.
C18_ClockChangesAggregate ==
  /\ Aggregated
  /\ aggregate.nowTs = 12
  /\ ~SameLevelsAt(0)

\* C18: a result whose weighting time differs from its processing time at
\* the handler's own `now`: an expired or same-day expiration.
C18_WeightingTimeDiffers ==
  /\ Aggregated
  /\ aggregate.nowTs = 0
  /\ \E i \in 1..Len(validResults) :
       LET w == WeightingT(validResults[i].isoDate, 0)
           p == timeToExpiration(validResults[i].isoDate)
       IN /\ validResults[i].isoDate < OneDay
          /\ w.n * p.d # p.n * w.d

-----------------------------------------------------------------------------
(* findTrueGammaFlip (part_008:232-264).                                   *)
(* calculateNetGexAtSpot prices every contract with the pricing library at *)
(* the probe spot: the net exposure of a probe is an input of the step     *)
(* that evaluates it.  An exposure is a double: [m, e] stands for          *)
(* m * 0.05 * 10^e.  Spots are in units of currentSpot / 327680, in which  *)
(* the scan window is 65536 = 2^16 wide and every midpoint of the 15       *)
(* halvings is exact.                                                      *)

ScanIterations == 15         \* for (let i = 0; i < 15; i++)
ConvergedBelow == 2          \* Math.abs(gexMid) < 0.1

FlipSpots == {327680}

Dbl(m, e) == [m |-> m, e |-> e]
Zero == Dbl(0, 0)
\* 0.05e-170: the exposure of a chain whose strikes are tens of standard
\* deviations away from the probe, e.g. one at-the-money contract a few
\* hours before expiry probed at spot * 0.9.
Tiny == Dbl(1, -170)
BoundGexSamples == {Dbl(-4, 0), Dbl(-1, 0), Zero, Tiny, Dbl(1, 0), Dbl(4, 0)}
MidGexSamples == {Dbl(-4, 0), Dbl(-1, 0), Tiny, Dbl(4, 0)}

Sgn(x) == IF x > 0 THEN 1 ELSE IF x < 0 THEN -1 ELSE 0

\* The sign of the double a * b: a product below the smallest positive
\* double (5e-324) is rounded to zero.
ProductSign(a, b) ==
  IF a.m = 0 \/ b.m = 0 \/ a.e + b.e < -323 THEN 0 ELSE Sgn(a.m) * Sgn(b.m)

\* Math.abs(a) < Math.abs(b)
AbsLess(a, b) ==
  IF b.m = 0 THEN FALSE
  ELSE IF a.m = 0 THEN TRUE
  ELSE IF a.e # b.e THEN a.e < b.e
  ELSE Abs(a.m) < Abs(b.m)

\* Line 254: Math.abs(gexMid) < 0.1
Converged(g) == g.m = 0 \/ g.e < 0 \/ Abs(g.m) < ConvergedBelow

\* The same-sign fallback looking for the crossing one window width beyond
\* the bound with the smaller exposure.
CloserBoundExtrapolated(gLow, gHigh, low, high) ==
  IF AbsLess(gLow, gHigh) THEN low - (high - low) ELSE high + (high - low)

\* Line 246-247: the bound returned when gexLow * gexHigh > 0.
CloserBound(gLow, gHigh, low, high) ==
  IF AbsLess(gLow, gHigh) THEN low ELSE high

\* Line 256: gexLow * gexMid <= 0, the lower half is kept.
KeepLowerHalfStrict(gLow, gMid) == ProductSign(gLow, gMid) < 0
KeepLowerHalf(gLow, gMid) == ProductSign(gLow, gMid) <= 0

InitFlip ==
  /\ pc = "findTrueGammaFlip"
  /\ flipSpot \in FlipSpots
  /\ flipOptions \in {0, 1}
  /\ flipLow = 0 /\ flipHigh = 0 /\ gexLow = None /\ gexHigh = None
  /\ gexAtLow = None /\ gexAtHigh = None /\ flipIter = 0 /\ evaluations = 0
  /\ flipResult = None
  /\ ProbIdle /\ OptIdle /\ RecIdle /\ PipeIdle /\ ScenIdle /\ RestIdle

\* Line 237: options.length === 0.
FlipNoOptions ==
  /\ pc = "findTrueGammaFlip" /\ flipOptions = 0
  /\ flipResult' = [spot |-> flipSpot, path |-> "empty", gex |-> Zero]
  /\ pc' = "flipDone"
  /\ UNCHANGED <<flipSpot, flipOptions, flipLow, flipHigh, gexLow, gexHigh,
                 gexAtLow, gexAtHigh, flipIter, evaluations, probVars,
                 optVars, recVars, pipeVars, scenVars, restVars>>

\* Lines 239-248: the two bounds are evaluated.
FlipEvaluateBounds ==
  /\ pc = "findTrueGammaFlip" /\ flipOptions > 0
  /\ \E gl \in BoundGexSamples, gh \in BoundGexSamples :
       LET low == (flipSpot * 9) \div 10
           high == (flipSpot * 11) \div 10
       IN /\ flipLow' = low /\ flipHigh' = high
          /\ gexLow' = gl /\ gexHigh' = gh
          /\ gexAtLow' = gl /\ gexAtHigh' = gh
          /\ IF ProductSign(gl, gh) > 0
             THEN /\ flipResult' =
                       [spot |-> CloserBound(gl, gh, low, high),
                        path |-> "sameSign",
                        gex |-> IF CloserBound(gl, gh, low, high) = low
                                THEN gl ELSE gh]
                  /\ pc' = "flipDone"
             ELSE /\ flipResult' = None
                  /\ pc' = "bisect"
  /\ evaluations' = 2
  /\ flipIter' = 0
  /\ UNCHANGED <<flipSpot, flipOptions, probVars, optVars, recVars, pipeVars, scenVars, restVars>>

\* Lines 250-261: one pass of the loop.
FlipIterate ==
  /\ pc = "bisect" /\ flipIter < ScanIterations
  /\ \E gexMid \in MidGexSamples :
       LET mid == (flipLow + flipHigh) \div 2
       IN IF Converged(gexMid)
          THEN /\ flipResult' = [spot |-> mid, path |-> "converged",
                                 gex |-> gexMid]
               /\ pc' = "flipDone"
               /\ UNCHANGED <<flipLow, flipHigh, gexAtLow, gexAtHigh,
                              flipIter>>
          ELSE /\ IF KeepLowerHalf(gexLow, gexMid)
                  THEN /\ flipHigh' = mid /\ gexAtHigh' = gexMid
                       /\ UNCHANGED <<flipLow, gexAtLow>>
                  ELSE /\ flipLow' = mid /\ gexAtLow' = gexMid
                       /\ UNCHANGED <<flipHigh, gexAtHigh>>
               /\ flipIter' = flipIter + 1
               /\ UNCHANGED <<flipResult, pc>>
  /\ evaluations' = evaluations + 1
  /\ UNCHANGED <<flipSpot, flipOptions, gexLow, gexHigh, probVars, optVars,
                 recVars, pipeVars, scenVars, restVars>>

\* Line 263: the loop ended without converging.
FlipCap ==
  /\ pc = "bisect" /\ flipIter = ScanIterations
  /\ flipResult' = [spot |-> (flipLow + flipHigh) \div 2, path |-> "cap",
                    gex |-> Zero]
  /\ pc' = "flipDone"
  /\ UNCHANGED <<flipSpot, flipOptions, flipLow, flipHigh, gexLow, gexHigh,
                 gexAtLow, gexAtHigh, flipIter, evaluations, probVars,
                 optVars, recVars, pipeVars, scenVars, restVars>>

NextFlip == FlipNoOptions \/ FlipEvaluateBounds \/ FlipIterate \/ FlipCap

SpecFlip == InitFlip /\ [][NextFlip]_vars

RECURSIVE Pow2(_)
Pow2(n) == IF n = 0 THEN 1 ELSE 2 * Pow2(n - 1)

FlipEvaluated == pc = "bisect" \/ (pc = "flipDone" /\ flipOptions > 0)

C8_WitnessCap ==
  /\ pc = "flipDone" /\ flipResult.path = "cap"
  /\ Sgn(gexLow.m) * Sgn(gexHigh.m) < 0

\* C28: findTrueGammaFlip returns a price of the closed scan window
\* [0.90 x spot, 1.10 x spot] for every non-empty contract set, whichever way
\* it returns (same-sign fallback, early convergence, iteration cap), and
\* exactly spot for the empty contract set.
C28_ResultInScanWindow ==
  pc = "flipDone" =>
    IF flipOptions = 0
      THEN flipResult.spot = flipSpot
      ELSE /\ 10 * flipResult.spot >= 9 * flipSpot
           /\ 10 * flipResult.spot <= 11 * flipSpot

\* C28 witness: the same-sign fallback returned a bound of the window.
C28_Witness ==
  /\ pc = "flipDone" /\ flipOptions > 0
  /\ flipResult.path = "sameSign"
  /\ 10 * flipResult.spot = 9 * flipSpot

\* C28 witness: the iteration cap returned a price next to the upper bound.
C28_WitnessCap ==
  /\ pc = "flipDone" /\ flipOptions > 0
  /\ flipResult.path = "cap"
  /\ flipLow > flipSpot
  /\ 10 * flipResult.spot < 11 * flipSpot

\* C28 witness: the empty contract set.
C28_WitnessEmpty ==
  /\ pc = "flipDone" /\ flipOptions = 0
  /\ flipResult.spot = flipSpot

\* C9: when the exposures at the two bounds have the same strict sign the
\* bound with the smaller absolute exposure is returned (high when the
\* magnitudes are equal) after exactly two evaluations and no iteration.
C9_SameSignReturnsCloserBound ==
  (FlipEvaluated /\ Sgn(gexLow.m) * Sgn(gexHigh.m) > 0) =>
    /\ pc = "flipDone" /\ flipResult.path = "sameSign"
    /\ evaluations = 2 /\ flipIter = 0
    /\ flipResult.spot =
         (IF AbsLess(gexLow, gexHigh) THEN flipLow ELSE flipHigh)

\* What the code does establish for C9: the same, whenever the double
\* gexLow * gexHigh is positive.
C9_PositiveProductReturnsCloserBound ==
  (FlipEvaluated /\ ProductSign(gexLow, gexHigh) > 0) =>
    /\ pc = "flipDone" /\ flipResult.path = "sameSign"
    /\ evaluations = 2 /\ flipIter = 0
    /\ flipResult.spot =
         (IF AbsLess(gexLow, gexHigh) THEN flipLow ELSE flipHigh)

\* Both exposures positive, their product rounded to zero: the search
\* bisects and returns a midpoint of the window.
C9_UnderflowBisects ==
  /\ pc = "flipDone" /\ flipResult.path = "converged"
  /\ gexLow = Tiny /\ gexHigh = Tiny

-----------------------------------------------------------------------------
(* The swing scenario generators: /api/analysis (index.ts:641-736) and     *)
(* /api/ticker-analysis (index.ts:1147-1227).                              *)
(* Prices are whole numbers.  profit = (0.995 * exit - entry) / entry * 100 *)
(* is kept as profitNum / (10 * entryPrice) with                           *)
(* profitNum = 995 * exit - 1000 * entry.  Sentiments and probabilities    *)
(* are whole numbers, the scenario probability is computed in tenths.      *)

MaxSnapshots == 5
scenarioLimit == 5           \* const scenarioLimit = 5
TopScenarios == 3            \* .slice(0, 3)
PriorityProbability == 70    \* a.probability >= 70
MinScenarioProb == 35        \* Math.max(35, ...)
MaxScenarioProb == 80        \* Math.min(80, scenarioProb)

Snapshot(ps, el, cr, eu, se, tg, up, down) ==
  [putSupport |-> ps, expectedLower |-> el, callResistance |-> cr,
   expectedUpper |-> eu, sentiment |-> se, totalGex |-> tg,
   priceProbability |-> [up |-> up, down |-> down]]
SnapshotSamples ==
  { Snapshot(995, 990, 1000, 1010, 0, 0, 43, 43),
    Snapshot(990, 1000, 1020, 1006, 50, 1, 60, 25),
    Snapshot(1010, 1000, 1020, 1030, -50, -1, 25, 60),
    Snapshot(990, 980, 1030, 1040, 100, 2, 100, 0),
    Snapshot(1000, 990, 1030, 1040, -100, -2, 0, 100) }

TickerPoint(es, er, se, tg, up, down) ==
  [expectedSupport |-> es, expectedResistance |-> er, sentiment |-> se,
   totalGex |-> tg, priceProbability |-> [up |-> up, down |-> down]]
TickerSamples ==
  { TickerPoint(995, 1000, 0, 0, 43, 43),
    TickerPoint(1000, 1006, 50, 1, 60, 25),
    TickerPoint(1010, 1020, -50, -1, 25, 60),
    TickerPoint(990, 1030, 100, 2, 100, 0),
    TickerPoint(1000, 1030, -100, -2, 0, 100) }
BetaSamples == {-3, 1}

Take(s, n) == SubSeq(s, 1, Min(n, Len(s)))

profitNum(entryPrice, exitPrice) == 995 * exitPrice - 1000 * entryPrice

\* The unclamped sum, in tenths: index.ts:692-701, 1183-1196 and
\* part_006:916-925.
scenarioProbTenths(entry, exit, sentimentImprovement, duration) ==
  LET gexTrend == IF exit.totalGex > entry.totalGex THEN 5 ELSE -5
  IN 550 + 4 * sentimentImprovement + 10 * gexTrend
     + 2 * (exit.priceProbability.up - exit.priceProbability.down)
     - 20 * duration

scenarioProbUnclamped(entry, exit, sentimentImprovement, duration) ==
  Round(scenarioProbTenths(entry, exit, sentimentImprovement, duration), 10)

\* scenarioProb, lines 693-702 and 1189-1196, sentimentImprovement already
\* negated for an inverse ticker.
scenarioProb(entry, exit, sentimentImprovement, duration) ==
  LET gexTrend == IF exit.totalGex > entry.totalGex THEN 5 ELSE -5
      tenths == 550 + 4 * sentimentImprovement + 10 * gexTrend
                + 2 * (exit.priceProbability.up - exit.priceProbability.down)
                - 20 * duration
  IN Round(Max(10 * MinScenarioProb, Min(10 * MaxScenarioProb, tenths)), 10)

\* part_006:926, the earlier copy of the endpoint: Math.min(92, scenarioProb).
EarlierMaxScenarioProb == 92
EarlierSpan == 4             \* part_006:896, j < Math.min(i + 4, length)
scenarioProbEarlier(entry, exit, sentimentImprovement, duration) ==
  Round(Max(10 * MinScenarioProb,
            Min(10 * EarlierMaxScenarioProb,
                scenarioProbTenths(entry, exit, sentimentImprovement,
                                   duration))), 10)

\* Line 705: if (profit > 0).
Profitable(num, entryPrice) == num > 0
\* Line 1181: if (profit > 0.1).
TickerProfitable(num, entryPrice) == num > entryPrice

\* The comparator of both sorts is negative: a is placed before b.
SortsBeforeByProfitOnly(a, b) ==
  b.profitNum * a.entryPrice < a.profitNum * b.entryPrice
SortsBefore(a, b) ==
  IF a.probability >= PriorityProbability /\ b.probability < PriorityProbability
  THEN TRUE
  ELSE IF b.probability >= PriorityProbability
          /\ a.probability < PriorityProbability
  THEN FALSE
  ELSE \* b.profit - a.profit < 0
       b.profitNum * a.entryPrice < a.profitNum * b.entryPrice

\* Array.prototype.sort is stable: x goes before the first element it
\* sorts before.
RECURSIVE InsertSorted(_, _)
InsertSorted(x, s) ==
  IF s = <<>> THEN <<x>>
  ELSE IF SortsBefore(x, Head(s)) THEN <<x>> \o s
  ELSE <<Head(s)>> \o InsertSorted(x, Tail(s))

RECURSIVE SortScenarios(_)
SortScenarios(s) ==
  IF s = <<>> THEN <<>>
  ELSE InsertSorted(s[Len(s)], SortScenarios(SubSeq(s, 1, Len(s) - 1)))

\* The pairs i < j in the order of the two nested loops.
RECURSIVE PairsFrom(_, _, _)
PairsFrom(i, j, n) ==
  IF i > n THEN <<>>
  ELSE IF j > n THEN PairsFrom(i + 1, i + 2, n)
  ELSE <<<<i, j>>>> \o PairsFrom(i, j + 1, n)

\* Lines 661-724: the candidate of one pair of /api/analysis.
Candidate(targetResults, i, j) ==
  LET entry == targetResults[i]
      exit == targetResults[j]
      realisticEntry == Max(entry.putSupport, entry.expectedLower)
      realisticExit == Min(exit.callResistance, exit.expectedUpper)
  IN [entry |-> i, exit |-> j, entryPrice |-> realisticEntry,
      extensionPrice |-> realisticExit,
      profitNum |-> profitNum(realisticEntry, realisticExit),
      probability |-> scenarioProb(entry, exit,
                                   exit.sentiment - entry.sentiment, j - i)]

\* Lines 1166-1214: the candidate of one pair of /api/ticker-analysis.
TickerCandidate(targetResults, beta, i, j) ==
  LET entry == targetResults[i]
      exit == targetResults[j]
      sentimentImprovement == exit.sentiment - entry.sentiment
      effectiveSentimentImprovement ==
        IF beta < 0 THEN -sentimentImprovement ELSE sentimentImprovement
  IN [entry |-> i, exit |-> j, entryPrice |-> entry.expectedSupport,
      extensionPrice |-> exit.expectedResistance,
      profitNum |-> profitNum(entry.expectedSupport, exit.expectedResistance),
      probability |-> scenarioProb(entry, exit,
                                   effectiveSentimentImprovement, j - i)]

Candidates(targetResults) ==
  LET pairs == PairsFrom(1, 2, Len(targetResults))
  IN [k \in 1..Len(pairs) |->
        Candidate(targetResults, pairs[k][1], pairs[k][2])]

TickerCandidates(targetResults, beta) ==
  LET pairs == PairsFrom(1, 2, Len(targetResults))
  IN [k \in 1..Len(pairs) |->
        TickerCandidate(targetResults, beta, pairs[k][1], pairs[k][2])]

\* part_006:895-943, the candidate of one pair of the earlier copy:
\* baseTarget = exit.callResistance * 0.99, entry at entry.putSupport.
EarlierCandidate(timeSeries, i, j) ==
  LET entry == timeSeries[i]
      exit == timeSeries[j]
  IN [entry |-> i, exit |-> j, entryPrice |-> entry.putSupport,
      extensionPrice |-> exit.callResistance,
      profitNum |-> 990 * exit.callResistance - 1000 * entry.putSupport,
      probability |-> scenarioProbEarlier(entry, exit,
                        exit.sentiment - entry.sentiment, j - i)]

\* part_006:895-896: for i, for j = i + 1; j < Math.min(i + 4, length).
RECURSIVE EarlierPairsFrom(_, _, _)
EarlierPairsFrom(i, j, n) ==
  IF i > n THEN <<>>
  ELSE IF j > Min(i + EarlierSpan - 1, n) THEN EarlierPairsFrom(i + 1, i + 2, n)
  ELSE <<<<i, j>>>> \o EarlierPairsFrom(i, j + 1, n)

EarlierCandidates(timeSeries) ==
  LET pairs == EarlierPairsFrom(1, 2, Len(timeSeries))
  IN [k \in 1..Len(pairs) |->
        EarlierCandidate(timeSeries, pairs[k][1], pairs[k][2])]

\* part_006:947: sort((a, b) => b.profit - a.profit), stable.
RECURSIVE InsertByProfit(_, _)
InsertByProfit(x, s) ==
  IF s = <<>> THEN <<x>>
  ELSE IF Head(s).profitNum * x.entryPrice < x.profitNum * Head(s).entryPrice
  THEN <<x>> \o s
  ELSE <<Head(s)>> \o InsertByProfit(x, Tail(s))

RECURSIVE SortByProfit(_)
SortByProfit(s) ==
  IF s = <<>> THEN <<>>
  ELSE InsertByProfit(s[Len(s)], SortByProfit(SubSeq(s, 1, Len(s) - 1)))

RECURSIVE SelectScenarios(_, _)
SelectScenarios(s, tickerRule) ==
  IF s = <<>> THEN <<>>
  ELSE LET c == Head(s)
           keep == IF tickerRule
                   THEN TickerProfitable(c.profitNum, c.entryPrice)
                   ELSE Profitable(c.profitNum, c.entryPrice)
       IN (IF keep THEN <<c>> ELSE <<>>)
          \o SelectScenarios(Tail(s), tickerRule)

InitScenario ==
  /\ pc = "scenarios"
  /\ \/ scenarioInput \in
          { [kind |-> "qqq", series |-> s, beta |-> 1] :
              s \in SeqsUpTo(SnapshotSamples, MaxSnapshots) }
     \/ scenarioInput \in
          { [kind |-> "ticker", series |-> s, beta |-> b] :
              s \in SeqsUpTo(TickerSamples, MaxSnapshots), b \in BetaSamples }
     \/ scenarioInput \in
          { [kind |-> "earlier", series |-> s, beta |-> 1] :
              s \in SeqsUpTo(SnapshotSamples, MaxSnapshots) }
  /\ combinations = <<>>
  /\ swingScenarios = None
  /\ ProbIdle /\ OptIdle /\ RecIdle /\ PipeIdle /\ FlipIdle /\ RestIdle

\* /api/analysis, lines 642-736.
GenerateSwingScenarios ==
  /\ pc = "scenarios" /\ scenarioInput.kind = "qqq"
  /\ LET series == scenarioInput.series
         targetResults == Take(series, scenarioLimit)
         kept == SelectScenarios(
                   Candidates(targetResults), FALSE)
     IN IF Len(series) >= 2
        THEN /\ combinations' = kept
             /\ swingScenarios' = Arr(Take(SortScenarios(kept), TopScenarios))
        ELSE /\ combinations' = <<>>
             /\ swingScenarios' = Arr(<<>>)
  /\ pc' = "scenariosDone"
  /\ UNCHANGED <<scenarioInput, probVars, optVars, recVars, pipeVars,
                 flipVars, restVars>>

\* /api/ticker-analysis, lines 1148-1227.
GenerateTickerSwingScenarios ==
  /\ pc = "scenarios" /\ scenarioInput.kind = "ticker"
  /\ LET tickerTimeSeries == scenarioInput.series
         targetResults == Take(tickerTimeSeries, scenarioLimit)
         kept == SelectScenarios(
                   TickerCandidates(targetResults, scenarioInput.beta), TRUE)
     IN IF Len(tickerTimeSeries) >= 2
        THEN /\ combinations' = kept
             /\ swingScenarios' = Arr(Take(SortScenarios(kept), TopScenarios))
        ELSE /\ combinations' = <<>>
             /\ swingScenarios' = Undefined
  /\ pc' = "scenariosDone"
  /\ UNCHANGED <<scenarioInput, probVars, optVars, recVars, pipeVars,
                 flipVars, restVars>>

\* The earlier copy of /api/analysis, part_006:879-949.
GenerateSwingScenariosEarlier ==
  /\ pc = "scenarios" /\ scenarioInput.kind = "earlier"
  /\ LET series == scenarioInput.series
         kept == SelectScenarios(EarlierCandidates(series), FALSE)
     IN IF Len(series) >= 2
        THEN /\ combinations' = kept
             /\ swingScenarios' = Arr(Take(SortByProfit(kept), TopScenarios))
        ELSE /\ combinations' = <<>>
             /\ swingScenarios' = Arr(<<>>)
  /\ pc' = "scenariosDone"
  /\ UNCHANGED <<scenarioInput, probVars, optVars, recVars, pipeVars,
                 flipVars, restVars>>

NextScenario ==
  \/ GenerateSwingScenarios
  \/ GenerateTickerSwingScenarios
  \/ GenerateSwingScenariosEarlier

SpecScenario == InitScenario /\ [][NextScenario]_vars

\* The candidates of the run, before the profit test.
AllCandidates ==
  LET targetResults == Take(scenarioInput.series, scenarioLimit)
  IN IF Len(scenarioInput.series) < 2 THEN <<>>
     ELSE IF scenarioInput.kind = "qqq"
     THEN Candidates(targetResults)
     ELSE IF scenarioInput.kind = "earlier"
     THEN EarlierCandidates(scenarioInput.series)
     ELSE TickerCandidates(targetResults, scenarioInput.beta)

Range(s) == {s[k] : k \in 1..Len(s)}

\* C10: no returned scenario has profit <= 0, and the generator discards
\* exactly the candidate pairs whose profit is non-positive: every candidate
\* with profit > 0 is kept.
C10_DiscardsExactlyNonPositive ==
  pc = "scenariosDone" =>
    /\ swingScenarios.k = "array" =>
         \A s \in Range(swingScenarios.v) : s.profitNum > 0
    /\ \A c \in Range(AllCandidates) :
         (c \in Range(combinations)) <=> (c.profitNum > 0)

\* What both generators do establish for C10: nothing with profit <= 0 is
\* kept or returned.
C10_NoNonPositiveProfit ==
  pc = "scenariosDone" =>
    /\ \A c \in Range(combinations) : c.profitNum > 0
    /\ swingScenarios.k = "array" =>
         \A s \in Range(swingScenarios.v) :
           s.profitNum > 0 /\ s \in Range(combinations)

\* The ticker generator dropped a candidate whose profit is positive.
C10_TickerDropsSmallProfit ==
  /\ pc = "scenariosDone" /\ scenarioInput.kind = "ticker"
  /\ \E c \in Range(AllCandidates) :
       c.profitNum > 0 /\ c \notin Range(combinations)

C12_ProbabilityInRange ==
  pc = "scenariosDone" =>
    \A c \in Range(AllCandidates) \cup Range(combinations) :
      c.probability \in 35..92

\* C12 witness: one run generated a scenario clamped at the floor and one
\* clamped at the cap, one of them four periods long.
C12_Witness ==
  /\ pc = "scenariosDone"
  /\ \E a \in Range(AllCandidates), b \in Range(AllCandidates) :
       /\ a.probability = 35 /\ b.probability >= 80
       /\ a.exit - a.entry = 4
       /\ LET s == scenarioInput.series
          IN scenarioProbTenths(s[a.entry], s[a.exit],
               s[a.exit].sentiment - s[a.entry].sentiment, 4) < 350

-----------------------------------------------------------------------------
\* calculateManualBeta (src/api/index.ts:53-138).
\*
\* The benchmark quotes are visited one by one; a quote whose date also has a
\* ticker close pushes the pair of closes onto commonData.  The closes are
\* whole dollars drawn from CloseSamples; every return of these samples is a
\* multiple of one half, so the returns are kept as twice their value and the
\* covariance and the variance as numerators over (2 * n)^2, n the number of
\* returns.  The ratio covariance / varianceB is the pair of the numerators.

MaxQuotes == 10  \* aligned closes pushed at most

\* [ticker, benchmark] closes of one date.  The first two give the two series
\* the same returns, the first and third keep the benchmark flat.
CloseSamples ==
  { [ticker |-> 3, benchmark |-> 1],
    [ticker |-> 6, benchmark |-> 2],
    [ticker |-> 6, benchmark |-> 1] }

MinCommonData == 10 \* commonData.length < 10 returns the default

\* (cur - prev) / prev, doubled.
TwiceReturn(prev, cur) == (2 * (cur - prev)) \div prev

tickerReturns(data) ==
  [i \in 1..(Len(data) - 1) |-> TwiceReturn(data[i].ticker, data[i + 1].ticker)]

benchmarkReturns(data) ==
  [i \in 1..(Len(data) - 1) |->
     TwiceReturn(data[i].benchmark, data[i + 1].benchmark)]

\* returns[i] - avg, as the numerator over 2 * Len(returns).
diff(returns, i) == Len(returns) * returns[i] - SumSeq(returns)

\* A cross moment that leaves the means out.
covarianceUncentred(tReturns, bReturns) ==
  Len(bReturns) * Len(bReturns) *
    SumSeq([i \in 1..Len(tReturns) |-> bReturns[i] * tReturns[i]])

\* covariance += diffB * diffT
covariance(tReturns, bReturns) ==
  SumSeq([i \in 1..Len(tReturns) |-> diff(bReturns, i) * diff(tReturns, i)])

\* varianceB += diffB * diffB
varianceB(bReturns) ==
  SumSeq([i \in 1..Len(bReturns) |-> diff(bReturns, i) * diff(bReturns, i)])

\* The value 1.0 of the three early returns.
DefaultBeta(path) == [num |-> 1, den |-> 1, path |-> path]

\* The body after the alignment loop.
betaOf(data) ==
  IF Len(data) < MinCommonData THEN DefaultBeta("short")
  ELSE LET tR == tickerReturns(data)
           bR == benchmarkReturns(data)
       IN IF varianceB(bR) = 0 THEN DefaultBeta("zeroVariance")
          ELSE [num |-> covariance(tR, bR), den |-> varianceB(bR),
                path |-> "ratio"]

InitBeta ==
  /\ pc = "beta"
  /\ commonData = <<>>
  /\ betaUnmatched = FALSE
  /\ manualBeta = None
  /\ ProbIdle /\ OptIdle /\ RecIdle /\ PipeIdle /\ FlipIdle /\ ScenIdle
  /\ ProjIdle /\ SentIdle /\ ReqIdle
  /\ ExpectedIdle

\* A benchmark quote whose date has a ticker close.
BetaPushAligned ==
  /\ pc = "beta"
  /\ Len(commonData) < MaxQuotes
  /\ \E c \in CloseSamples : commonData' = Append(commonData, c)
  /\ UNCHANGED <<pc, betaUnmatched, manualBeta, probVars, optVars, recVars,
                 pipeVars, flipVars, scenVars, projVars, sentVars, reqVars,
                 expectedVars>>

\* A benchmark quote without a ticker close on its date, or without a close of
\* its own: nothing is pushed.
BetaSkipUnaligned ==
  /\ pc = "beta"
  /\ ~betaUnmatched
  /\ betaUnmatched' = TRUE
  /\ UNCHANGED <<pc, commonData, manualBeta, probVars, optVars, recVars,
                 pipeVars, flipVars, scenVars, projVars, sentVars, reqVars,
                 expectedVars>>

\* The quotes are exhausted: the length test, the returns, the two moments.
BetaCompute ==
  /\ pc = "beta"
  /\ manualBeta' = betaOf(commonData)
  /\ pc' = "betaDone"
  /\ UNCHANGED <<commonData, betaUnmatched, probVars, optVars, recVars,
                 pipeVars, flipVars, scenVars, projVars, sentVars, reqVars,
                 expectedVars>>

\* A chart request rejects, before any quote is visited: the catch returns
\* 1.0.
BetaCaught ==
  /\ pc = "beta"
  /\ commonData = <<>> /\ ~betaUnmatched
  /\ manualBeta' = DefaultBeta("caught")
  /\ pc' = "betaDone"
  /\ UNCHANGED <<commonData, betaUnmatched, probVars, optVars, recVars,
                 pipeVars, flipVars, scenVars, projVars, sentVars, reqVars,
                 expectedVars>>

NextBeta ==
  \/ BetaPushAligned
  \/ BetaSkipUnaligned
  \/ BetaCompute
  \/ BetaCaught

SpecBeta == InitBeta /\ [][NextBeta]_vars

\* C14: when calculateManualBeta has returned, identical ticker and benchmark
\* return series give exactly 1.0 (the covariance equals the variance), and a
\* benchmark variance of exactly 0 gives the default 1.0.
C14_IdenticalOrFlatGivesOne ==
  (pc = "betaDone" /\ manualBeta.path # "caught") =>
    LET tR == tickerReturns(commonData)
        bR == benchmarkReturns(commonData)
        Dev(r, i) == Len(r) * r[i] - SumSeq(r)
        Flat(r) == \A i \in 1..Len(r) : Dev(r, i) = 0
    IN /\ tR = bR => manualBeta.num = manualBeta.den /\ manualBeta.den # 0
       /\ Flat(bR) => manualBeta.num = 1 /\ manualBeta.den = 1

\* C14 witness: ten or more aligned closes whose two return series are equal
\* and not flat, answered by the ratio of two equal moments.
C14_Witness ==
  /\ pc = "betaDone"
  /\ manualBeta.path = "ratio"
  /\ tickerReturns(commonData) = benchmarkReturns(commonData)
  /\ manualBeta.num = manualBeta.den
  /\ manualBeta.den > 1

\* C14 witness: ten or more aligned closes with a flat benchmark and a moving
\* ticker, answered by the default.
C14_WitnessFlat ==
  /\ pc = "betaDone"
  /\ manualBeta.path = "zeroVariance"
  /\ \E i \in 1..(Len(commonData) - 1) :
       commonData[i].ticker # commonData[i + 1].ticker

\* C15: the default 1.0 is returned whenever there are fewer than 10 aligned
\* return observations, and a ratio is computed only from 10 or more aligned
\* return pairs.
C15_FewerThanTenReturnsGiveDefault ==
  pc = "betaDone" =>
    LET returnPairs == IF commonData = <<>> THEN 0 ELSE Len(commonData) - 1
    IN /\ returnPairs < 10 => manualBeta.path # "ratio"
       /\ manualBeta.path = "ratio" => returnPairs >= 10

\* C15: ten aligned closes are nine return pairs, and their ratio is computed.
C15_NineReturnPairs ==
  /\ pc = "betaDone"
  /\ Len(commonData) = 10
  /\ manualBeta.path = "ratio"
  /\ manualBeta.num # manualBeta.den

-----------------------------------------------------------------------------
\* The beta projection of POST /api/ticker-analysis (src/api/index.ts:1010-1044).
\*
\* beta is kept in tenths.  A projection
\*   currentPrice * (1 + beta * (target / qPrice - 1))
\* is kept as its numerator over ProjectionScale * qPrice, so that the two
\* fallbacks (expectedSupport * 0.97 and expectedResistance + 10) are whole
\* numbers of the same unit.

ProjectionScale == 1000

TickerPrices == {0, 50, 100}          \* quote.regularMarketPrice || 0
BetaTenths == {-20, -5, 0, 10, 15}    \* calculateManualBeta, in tenths
QqqPrices == {0, 100}                 \* Number(qqqPrice); 0 stands for a falsy one
QqqSupports == {0, 90, 110}
QqqResistances == {0, 105, 120}
QqqMins == {0, 80, 104}
QqqMaxes == {0, 101, 130}

\* Number(x) is falsy: 0 or NaN.
Falsy(x) == x = 0

\* The projection with the sign of beta dropped.
projectAbsBeta(current, b, target, qPrice) ==
  100 * current * (10 * qPrice + Abs(b) * (target - qPrice))

\* currentPrice * (1 + beta * (target / qPrice - 1))
project(current, b, target, qPrice) ==
  100 * current * (10 * qPrice + b * (target - qPrice))

\* One point of qqqTimeSeries as the request body carries it: the benchmark's
\* walls, its one-sigma range and its probabilities.
QqqPoints ==
  [putSupport : {90}, callResistance : {105}, expectedUpper : {103, 108},
   expectedLower : {95},
   priceProbability : {[up |-> 60, down |-> 25, neutral |-> 15],
                       [up |-> 50, down |-> 50, neutral |-> 0]}]

\* A value for which Array.isArray is false.
NotAnArray == [k |-> "undef", v |-> <<>>]

\* req.body.qqqTimeSeries: absent (not an array), empty, or one point.
QqqTimeSeries == {NotAnArray, Arr(<<>>)} \cup {Arr(<<q>>) : q \in QqqPoints}

\* The walls taken the same way round whatever the sign of beta.
tickerPointNeverSwapped(q, current, b, qPrice) ==
  LET tAtQSupport == project(current, b, q.putSupport, qPrice)
      tAtQResistance == project(current, b, q.callResistance, qPrice)
      tAtQUpper == project(current, b, q.expectedUpper, qPrice)
      tAtQLower == project(current, b, q.expectedLower, qPrice)
  IN [tUpsideWall |-> tAtQResistance,
      tDownsideWall |-> tAtQSupport,
      expectedSupport |-> Max(tAtQSupport, tAtQLower),
      expectedResistance |-> Min(tAtQResistance, tAtQUpper),
      expectedUpper |-> tAtQUpper,
      expectedLower |-> tAtQLower,
      priceProbability |-> q.priceProbability]

\* The callback of qqqTimeSeries.map: one ticker point from one benchmark
\* point.  tUpsideWall and tDownsideWall are locals of the callback, kept here
\* next to the fields it returns.
tickerPoint(q, current, b, qPrice) ==
  LET tAtQSupport == project(current, b, q.putSupport, qPrice)
      tAtQResistance == project(current, b, q.callResistance, qPrice)
      tAtQUpper == project(current, b, q.expectedUpper, qPrice)
      tAtQLower == project(current, b, q.expectedLower, qPrice)
      tUpsideWall == IF b >= 0 THEN tAtQResistance ELSE tAtQSupport
      tDownsideWall == IF b >= 0 THEN tAtQSupport ELSE tAtQResistance
      tUpsideLimit == IF b >= 0 THEN tAtQUpper ELSE tAtQLower
      tDownsideLimit == IF b >= 0 THEN tAtQLower ELSE tAtQUpper
  IN [tUpsideWall |-> tUpsideWall,
      tDownsideWall |-> tDownsideWall,
      expectedSupport |-> Max(tDownsideWall, tDownsideLimit),
      expectedResistance |-> Min(tUpsideWall, tUpsideLimit),
      expectedUpper |-> tUpsideLimit,
      expectedLower |-> tDownsideLimit,
      priceProbability |->
        IF b < 0
          THEN [up |-> q.priceProbability.down,
                down |-> q.priceProbability.up,
                neutral |-> q.priceProbability.neutral]
          ELSE q.priceProbability]

\* tickerTimeSeries: undefined unless qqqTimeSeries is an array.
tickerTimeSeries(in) ==
  IF in.qqqTimeSeries.k # "array"
    THEN NotAnArray
    ELSE Arr([i \in 1..Len(in.qqqTimeSeries.v) |->
                tickerPoint(in.qqqTimeSeries.v[i], in.currentPrice, in.beta,
                            in.qPrice)])

\* The four expected levels of the response.
projection(in) ==
  LET expectedSupport == project(in.currentPrice, in.beta, in.qSupport, in.qPrice)
      expectedResistance ==
        project(in.currentPrice, in.beta, in.qResistance, in.qPrice)
  IN [status |-> 200,
      expectedSupport |-> expectedSupport,
      expectedResistance |-> expectedResistance,
      expectedMin |->
        IF ~Falsy(in.qMin)
          THEN project(in.currentPrice, in.beta, in.qMin, in.qPrice)
          ELSE (97 * expectedSupport) \div 100,
      expectedMax |->
        IF ~Falsy(in.qMax)
          THEN project(in.currentPrice, in.beta, in.qMax, in.qPrice)
          ELSE expectedResistance + 10 * ProjectionScale * in.qPrice,
      timeSeries |-> tickerTimeSeries(in)]

InitTicker ==
  /\ pc = "ticker"
  /\ tickerInput \in [currentPrice : TickerPrices, beta : BetaTenths,
                      qPrice : QqqPrices, qSupport : QqqSupports,
                      qResistance : QqqResistances, qMin : QqqMins,
                      qMax : QqqMaxes, qqqTimeSeries : QqqTimeSeries]
  /\ tickerResponse = None
  /\ ProbIdle /\ OptIdle /\ RecIdle /\ PipeIdle /\ FlipIdle /\ ScenIdle
  /\ BetaIdle /\ SentIdle /\ ReqIdle
  /\ ExpectedIdle

\* yahooFinance.quote returned nothing.
TickerNotFound ==
  /\ pc = "ticker"
  /\ tickerResponse' = [status |-> 404]
  /\ pc' = "tickerDone"
  /\ UNCHANGED <<tickerInput, probVars, optVars, recVars, pipeVars, flipVars,
                 scenVars, betaVars, sentVars, reqVars, expectedVars>>

\* One of qqqPrice, qqqSupport, qqqResistance is missing or zero.
TickerRejected ==
  /\ pc = "ticker"
  /\ Falsy(tickerInput.qPrice) \/ Falsy(tickerInput.qSupport)
       \/ Falsy(tickerInput.qResistance)
  /\ tickerResponse' = [status |-> 400]
  /\ pc' = "tickerDone"
  /\ UNCHANGED <<tickerInput, probVars, optVars, recVars, pipeVars, flipVars,
                 scenVars, betaVars, sentVars, reqVars, expectedVars>>

\* The beta-corrected levels.
TickerProject ==
  /\ pc = "ticker"
  /\ ~Falsy(tickerInput.qPrice) /\ ~Falsy(tickerInput.qSupport)
       /\ ~Falsy(tickerInput.qResistance)
  /\ tickerResponse' = projection(tickerInput)
  /\ pc' = "tickerDone"
  /\ UNCHANGED <<tickerInput, probVars, optVars, recVars, pipeVars, flipVars,
                 scenVars, betaVars, sentVars, reqVars, expectedVars>>

NextTicker ==
  \/ TickerNotFound
  \/ TickerRejected
  \/ TickerProject

SpecTicker == InitTicker /\ [][NextTicker]_vars

\* C25: for beta < 0 every point of the ticker's time series carries the
\* benchmark's down probability as up, its up probability as down and its
\* neutral probability unchanged, its upside wall and limit are projected from
\* the benchmark's put support and expected lower and its downside wall and
\* limit from the call resistance and expected upper; for beta >= 0, zero
\* included, nothing is swapped.
C25_NegativeBetaSwaps ==
  (pc = "tickerDone" /\ tickerResponse.status = 200
     /\ tickerResponse.timeSeries.k = "array") =>
    LET in == tickerInput
        At(target) ==
          100 * in.currentPrice * (10 * in.qPrice + in.beta * (target - in.qPrice))
    IN \A i \in 1..Len(tickerResponse.timeSeries.v) :
         LET q == in.qqqTimeSeries.v[i]
             t == tickerResponse.timeSeries.v[i]
         IN IF in.beta < 0
              THEN /\ t.priceProbability.up = q.priceProbability.down
                   /\ t.priceProbability.down = q.priceProbability.up
                   /\ t.priceProbability.neutral = q.priceProbability.neutral
                   /\ t.tUpsideWall = At(q.putSupport)
                   /\ t.expectedUpper = At(q.expectedLower)
                   /\ t.tDownsideWall = At(q.callResistance)
                   /\ t.expectedLower = At(q.expectedUpper)
              ELSE /\ t.priceProbability = q.priceProbability
                   /\ t.tUpsideWall = At(q.callResistance)
                   /\ t.expectedUpper = At(q.expectedUpper)
                   /\ t.tDownsideWall = At(q.putSupport)
                   /\ t.expectedLower = At(q.expectedLower)

\* C25 witness: a negative beta and a benchmark point with unequal up and down
\* probabilities, mapped to a point whose upside wall lies above its downside
\* wall.
C25_Witness ==
  /\ pc = "tickerDone"
  /\ tickerResponse.status = 200
  /\ tickerInput.beta < 0
  /\ tickerInput.currentPrice > 0
  /\ tickerResponse.timeSeries.k = "array"
  /\ Len(tickerResponse.timeSeries.v) = 1
  /\ tickerInput.qqqTimeSeries.v[1].priceProbability.up
       # tickerInput.qqqTimeSeries.v[1].priceProbability.down
  /\ tickerResponse.timeSeries.v[1].priceProbability.up = 25
  /\ tickerResponse.timeSeries.v[1].tUpsideWall
       > tickerResponse.timeSeries.v[1].tDownsideWall

\* C25 witness for the boundary: beta = 0 leaves the probabilities as they came.
C25_WitnessZeroBeta ==
  /\ pc = "tickerDone"
  /\ tickerResponse.status = 200
  /\ tickerInput.beta = 0
  /\ tickerResponse.timeSeries.k = "array"
  /\ Len(tickerResponse.timeSeries.v) = 1
  /\ tickerResponse.timeSeries.v[1].priceProbability.up = 60

\* C13: with currentPrice >= 0, a QQQ price > 0, a QQQ target above the QQQ
\* price and beta < 0, every level projected by the formula is at most
\* currentPrice.
C13_NegativeBetaProjectsBelow ==
  (pc = "tickerDone" /\ tickerResponse.status = 200) =>
    LET in == tickerInput
        out == tickerResponse
        AtMostCurrent(level) ==
          level <= in.currentPrice * ProjectionScale * in.qPrice
    IN (in.currentPrice >= 0 /\ in.qPrice > 0 /\ in.beta < 0) =>
         /\ in.qSupport > in.qPrice => AtMostCurrent(out.expectedSupport)
         /\ in.qResistance > in.qPrice => AtMostCurrent(out.expectedResistance)
         /\ in.qMin > in.qPrice => AtMostCurrent(out.expectedMin)
         /\ in.qMax > in.qPrice => AtMostCurrent(out.expectedMax)

\* C13 witness: a positive price, a negative beta and a resistance above the
\* QQQ price, projected strictly below the price.
C13_Witness ==
  /\ pc = "tickerDone"
  /\ tickerResponse.status = 200
  /\ tickerInput.currentPrice > 0
  /\ tickerInput.beta < 0
  /\ tickerInput.qResistance > tickerInput.qPrice
  /\ tickerInput.qMax > tickerInput.qPrice
  /\ tickerResponse.expectedResistance
       < tickerInput.currentPrice * ProjectionScale * tickerInput.qPrice
  /\ tickerResponse.expectedMax < tickerResponse.expectedResistance

-----------------------------------------------------------------------------
\* calculateSentiment (src/unnamed/part_008:266-270).
\*
\* The result depends on the ratio of the two exposures only, except where a
\* sum leaves the range of a double.  An exposure n stands for n * 2^1020, so
\* that a sum of magnitude OverflowAt = 2^1024 / 2^1020 or more is Infinity;
\* sums below it are exact, as sums of small multiples of one power of two.
\* The sentiment is a tagged value: a ratio n / d, or NaN.

OverflowAt == 16

ExposureSamples == {-12, -8, -3, -1, 0, 1, 3, 8, 12}

SignedInfinity(s) == [k |-> "inf", v |-> s]

\* a + b of two finite doubles.
AddDouble(a, b) ==
  IF Abs(a + b) >= OverflowAt THEN SignedInfinity(Sgn(a + b)) ELSE Num(a + b)

\* (x / y) * 100 for y > 0, as a ratio n / d.
RatioTimes100(x, y) ==
  IF x.k = "inf" /\ y.k = "inf" THEN NaN
  ELSE IF y.k = "inf" THEN Num([n |-> 0, d |-> 1])
  ELSE Num([n |-> 100 * x.v, d |-> y.v])

\* Math.abs(callGex) + Math.abs(putGex) > 0 ? ratio * 100 : 0
calculateSentiment(callGex, putGex) ==
  LET total == AddDouble(Abs(callGex), Abs(putGex))
  IN IF total.k = "inf" \/ total.v > 0
       THEN RatioTimes100(AddDouble(callGex, putGex), total)
       ELSE Num([n |-> 0, d |-> 1])

InitSentiment ==
  /\ pc = "sentiment"
  /\ gexPair \in [callGex : ExposureSamples, putGex : ExposureSamples]
  /\ sentiment = None
  /\ ProbIdle /\ OptIdle /\ RecIdle /\ PipeIdle /\ FlipIdle /\ ScenIdle
  /\ BetaIdle /\ ProjIdle /\ ReqIdle
  /\ ExpectedIdle

CalculateSentiment ==
  /\ pc = "sentiment"
  /\ sentiment' = calculateSentiment(gexPair.callGex, gexPair.putGex)
  /\ pc' = "sentimentDone"
  /\ UNCHANGED <<gexPair, probVars, optVars, recVars, pipeVars, flipVars,
                 scenVars, betaVars, projVars, reqVars, expectedVars>>

NextSentiment == CalculateSentiment

SpecSentiment == InitSentiment /\ [][NextSentiment]_vars

\* The value is the number 100 * (callGex + putGex) / (|callGex| + |putGex|),
\* or the number 0 when both exposures are zero.
SentimentIsFormula(in, out) ==
  /\ out.k = "num"
  /\ IF in.callGex = 0 /\ in.putGex = 0 THEN out.v.n = 0
     ELSE out.v.n * (Abs(in.callGex) + Abs(in.putGex))
            = 100 * (in.callGex + in.putGex) * out.v.d

\* The value is a number of [-100, 100].
SentimentInRange(out) ==
  /\ out.k = "num"
  /\ -100 * out.v.d <= out.v.n
  /\ out.v.n <= 100 * out.v.d

\* C16: for all finite callGex and putGex calculateSentiment returns a value
\* of [-100, 100], 0 when both are zero and
\* 100 * (callGex + putGex) / (|callGex| + |putGex|) otherwise.
C16_SentimentContract ==
  pc = "sentimentDone" =>
    /\ SentimentInRange(sentiment)
    /\ SentimentIsFormula(gexPair, sentiment)

\* C16 restricted to exposures whose absolute values sum to a finite double:
\* there the range and the formula hold.
C16_ContractBelowOverflow ==
  (pc = "sentimentDone"
     /\ Abs(gexPair.callGex) + Abs(gexPair.putGex) < OverflowAt) =>
    /\ SentimentInRange(sentiment)
    /\ SentimentIsFormula(gexPair, sentiment)

\* C16: two finite exposures of one sign whose sum overflows give NaN.
C16_OverflowGivesNaN ==
  /\ pc = "sentimentDone"
  /\ Abs(gexPair.callGex) < OverflowAt /\ Abs(gexPair.putGex) < OverflowAt
  /\ sentiment.k = "nan"

-----------------------------------------------------------------------------
\* The expirations of GET /api/analysis and their tasks
\* (src/api/index.ts:297-592).
\*
\* A date is a whole number of days after today's New York date; the strings
\* "YYYY-MM-DD" the code compares are ordered as these numbers.  The tasks of
\* Promise.all start together and each settles after its chain request
\* returns, in any order; a task's outcome is its status in
\* diagnostics.details, and its result, if it has one, carries its date.

FilterLimitDays == 30       \* todayStart.add(30, "day")
MinTargetExpirations == 5   \* targetExpirations.length >= 5
FallbackExpirations == 5    \* .slice(0, 5)

\* Lists of expiration dates of the provider: a month of weeklies with one past
\* date and one beyond the limit, three sparse lists, one out of order, one of
\* past dates only, an empty one.
RawDateLists ==
  { <<-1, 0, 7, 14, 21, 30, 45>>,
    <<0, 7, 45, 60>>,
    <<-1, 0, 30, 31>>,
    <<45, 0, 7>>,
    <<31, 60>>,
    <<-7, -1>>,
    <<>> }

TaskStatuses == {"success", "no_data", "filtered_out", "error"}

Pending == [k |-> "pending", isoDate |-> 0]
Null == [k |-> "null", isoDate |-> 0]
Result(d) == [k |-> "result", isoDate |-> d]

\* expStr >= todayStr
OnOrAfterToday(d) == d >= 0
\* expStr <= limitStr
WithinLimit(d) == d <= FilterLimitDays

targetExpirations(raw) ==
  SelectSeq(SelectSeq(raw, OnOrAfterToday), WithinLimit)

selectFinalExpirations(raw) ==
  IF Len(targetExpirations(raw)) >= MinTargetExpirations
    THEN targetExpirations(raw)
    ELSE Take(SelectSeq(raw, OnOrAfterToday), FallbackExpirations)

\* A settled task fills the first slot still pending.
resolveFirstPending(slots, i, value) ==
  LET first == CHOOSE j \in 1..Len(slots) :
                 /\ slots[j] = Pending
                 /\ \A h \in 1..(j - 1) : slots[h] # Pending
  IN [slots EXCEPT ![first] = value]

\* Promise.all: the value of the i-th promise is the i-th element.
resolveAt(slots, i, value) == [slots EXCEPT ![i] = value]

\* results.filter((r) => r !== null)
NonNull(slots) == SelectSeq(slots, LAMBDA r : r.k = "result")

InitRequest ==
  /\ pc = "request"
  /\ rawExpirationDates \in RawDateLists
  /\ finalExpirations = <<>>
  /\ results = <<>>
  /\ details = <<>>
  /\ ProbIdle /\ OptIdle /\ RecIdle /\ PipeIdle /\ FlipIdle /\ ScenIdle
  /\ BetaIdle /\ ProjIdle /\ SentIdle
  /\ ExpectedIdle

\* api/index.ts:301-307: no expiration dates at all.
NoExpirationDates ==
  /\ pc = "request"
  /\ Len(rawExpirationDates) = 0
  /\ pc' = "requestFailed"
  /\ UNCHANGED <<rawExpirationDates, finalExpirations, results, details,
                 probVars, optVars, recVars, pipeVars, flipVars, scenVars,
                 betaVars, projVars, sentVars, expectedVars>>

\* api/index.ts:313-350: the two filters, the fallback, and the start of one
\* task per selected date.
SelectExpirations ==
  /\ pc = "request"
  /\ Len(rawExpirationDates) > 0
  /\ finalExpirations' = selectFinalExpirations(rawExpirationDates)
  /\ results' = [i \in 1..Len(finalExpirations') |-> Pending]
  /\ pc' = "tasks"
  /\ UNCHANGED <<rawExpirationDates, details, probVars, optVars, recVars,
                 pipeVars, flipVars, scenVars, betaVars, projVars, sentVars,
                 expectedVars>>

\* api/index.ts:350-582: the chain request of task i has returned and the
\* task runs to its end: it pushes its status and resolves with its result
\* or with null.
TaskSettles ==
  /\ pc = "tasks"
  /\ \E i \in 1..Len(results), outcome \in TaskStatuses :
       /\ \A j \in 1..Len(details) : details[j].date # finalExpirations[i]
       /\ details' = Append(details,
            [date |-> finalExpirations[i], status |-> outcome])
       /\ results' = resolveAt(results, i,
            IF outcome = "success" THEN Result(finalExpirations[i]) ELSE Null)
  /\ UNCHANGED <<pc, rawExpirationDates, finalExpirations, probVars, optVars,
                 recVars, pipeVars, flipVars, scenVars, betaVars, projVars,
                 sentVars, expectedVars>>

\* api/index.ts:349, 585-592: every promise has settled; the results that
\* are not null go on to the aggregation, or the request fails without any.
AllSettled ==
  /\ pc = "tasks"
  /\ Len(details) = Len(finalExpirations)
  /\ validResults' = NonNull(results)
  /\ pc' = IF Len(validResults') = 0 THEN "requestFailed" ELSE "aggregating"
  /\ UNCHANGED <<rawExpirationDates, finalExpirations, results, details,
                 marketPrice, expiration, aggregate, probVars, optVars,
                 recVars, flipVars, scenVars, betaVars, projVars, sentVars,
                 expectedVars>>

NextRequest ==
  \/ NoExpirationDates
  \/ SelectExpirations
  \/ TaskSettles
  \/ AllSettled

SpecRequest == InitRequest /\ [][NextRequest]_vars

\* C19: the aggregation starts only when every task has settled; a task
\* without a result stops no other task; and the results combined are those
\* of the successful tasks in the order of the selected dates, whatever the
\* order in which the tasks settled.
C19_FanOutFanIn ==
  pc = "aggregating" =>
    LET Status(d) == (CHOOSE j \in 1..Len(details) : details[j].date = d)
        Succeeded(d) == details[Status(d)].status = "success"
        kept == SelectSeq(finalExpirations, Succeeded)
    IN /\ \A i \in 1..Len(results) : results[i].k # "pending"
       /\ \A i \in 1..Len(finalExpirations) :
            \E j \in 1..Len(details) : details[j].date = finalExpirations[i]
       /\ Len(validResults) = Len(kept)
       /\ \A i \in 1..Len(kept) : validResults[i].isoDate = kept[i]

\* C19 witness: five tasks settled in the reverse of the order of their
\* dates, the second and the fourth without a result, and the three results
\* were combined in the order of the dates.
C19_Witness ==
  /\ pc = "aggregating"
  /\ Len(finalExpirations) = 5
  /\ \A j \in 1..5 : details[j].date = finalExpirations[6 - j]
  /\ details[2].status = "error" /\ details[4].status = "no_data"
  /\ Len(validResults) = 3
  /\ validResults[1].isoDate < validResults[2].isoDate
  /\ validResults[2].isoDate < validResults[3].isoDate

\* C20: every expiration analysed is dated today or later and no later than
\* 30 days after today, whatever dates the provider lists.
C20_WithinThirtyDays ==
  pc \in {"tasks", "aggregating"} =>
    \A i \in 1..Len(finalExpirations) :
      finalExpirations[i] >= 0 /\ finalExpirations[i] <= 30

\* C20, the half that holds: no expiration analysed is before today.
C20_NeverBeforeToday ==
  pc \in {"tasks", "aggregating"} =>
    \A i \in 1..Len(finalExpirations) : finalExpirations[i] >= 0

\* C20: fewer than five dates within 30 days, and a date beyond them is
\* analysed and its result goes on to the aggregation.
C20_FallbackBeyondThirtyDays ==
  /\ pc = "aggregating"
  /\ Len(targetExpirations(rawExpirationDates)) < 5
  /\ \E i \in 1..Len(validResults) : validResults[i].isoDate > 30

-----------------------------------------------------------------------------

Init == InitProb \/ InitOption \/ InitRec \/ InitAnalysis \/ InitFlip
        \/ InitScenario \/ InitBeta \/ InitTicker
        \/ InitSentiment \/ InitRequest
        \/ InitExpected

Next == NextProb \/ NextOption \/ NextRec \/ NextAnalysis \/ NextFlip
        \/ NextScenario \/ NextBeta \/ NextTicker
        \/ NextSentiment \/ NextRequest
        \/ NextExpected

Spec == Init /\ [][Next]_vars
====
